---- MODULE Spec2Model ----
(***************************************************************************)
(* Model of the ADO -> GitLab migration engine (src/main_migrator.py),     *)
(* its identity-map store (src/config_loader.py) and the retry wrapper     *)
(* and link helpers of src/gitlab_interaction.py.                          *)
(*                                                                         *)
(* The specifications:                                                     *)
(*   Spec       the engine: process starts, Phase 1 (items, comments),     *)
(*              Phase 2 (relations), kills and restarts, the mapping file. *)
(*              Every remote call made through call_with_retry appears by  *)
(*              its final result (value / None sentinel / raised).         *)
(*   SpecRetry  call_with_retry attempt by attempt, and the two link       *)
(*              helpers that call it twice (fetch, then link).             *)
(*   Spec<Part> one part of the program on every input of the model, the   *)
(*              other parts at rest: the mapping file (SpecStore), area    *)
(*              labels, the translation of an item, the setup, the footer, *)
(*              batch creation, comments, the DatabaseHandler, one         *)
(*              relation, the creation of an item.                         *)
(***************************************************************************)
EXTENDS Integers, Sequences, FiniteSets, TLC

(* ---------------- bounds of the model ---------------- *)

\* number of source work items of the snapshot (ids 1..NumItems)
NumItems == 2
\* number of process starts of the engine that are explored
MaxRuns == 2

(* ---------------- program constants ---------------- *)

MAX_RETRIES == 3
RETRY_DELAY_SECONDS == 5

(* ---------------- the source snapshot (read-only) ---------------- *)

\* all_ado_ids: the ids the WIQL query returns, in query order
all_ado_ids == [i \in 1..NumItems |-> i]

Ids == 1..NumItems

\* System.WorkItemType of a source item
SourceType(s) == IF s = 1 THEN "Epic" ELSE IF s = 2 THEN "Task" ELSE "Bug"

\* System.State of a source item
SourceState(s) == IF s = 2 THEN "Closed" ELSE "Active"

\* the comments the source holds for an item, as returned by
\* get_ado_work_item_comments (ids of the comments, ascending creation time)
ado_comments(s) == IF s = 1 THEN <<11>> ELSE IF s = 2 THEN <<21, 22>> ELSE <<>>

\* relation reference URLs: a work-item URL carries the referenced id, any
\* other URL (hyperlink, artifact) does not match the work-item pattern
WorkItemUrl(id) == [kind |-> "workitem", id |-> id]

\* the relations of a source item (expanded fetch of Phase 2)
Relations(s) ==
    IF s = 1 THEN << [rel |-> "System.LinkTypes.Hierarchy-Reverse", url |-> WorkItemUrl(2)],
                     [rel |-> "System.LinkTypes.Related", url |-> WorkItemUrl(2)] >>
    ELSE IF s = 2 THEN << [rel |-> "System.LinkTypes.Hierarchy-Forward", url |-> WorkItemUrl(1)],
                          [rel |-> "System.LinkTypes.Related", url |-> WorkItemUrl(3)] >>
    ELSE << [rel |-> "System.LinkTypes.Related", url |-> WorkItemUrl(2)] >>

(* ---------------- configuration (migration_config.yaml) ---------------- *)

\* script_config['ado_to_gitlab_type'] with script_config['default_gitlab_type']
gitlab_target_type_str(ado_type) == IF ado_type = "Epic" THEN "epic" ELSE "issue"

\* script_config['ado_state_to_gitlab_labels'][state]['action'] == '_close_issue_'
action_close_issue(ado_state) == ado_state = "Closed"

\* script_config['ado_to_gitlab_link_type_mapping'] .get(rel) or default_gitlab_link_type;
\* "null" stands for None (no mapping and no default)
mapped_gl_link_type(rel) == IF rel = "System.LinkTypes.Related" THEN "relates_to" ELSE "null"

(* ---------------- values ---------------- *)

\* Python's None where a GitLab item is expected
NoItem == [kind |-> "none", iid |-> 0, gid |-> 0, ado |-> 0]

\* the empty dict
EmptyMap == [s \in {} |-> [type |-> "issue", id |-> 0, gitlab_global_id |-> 0]]

\* identity-map record for a created item
MappingRecord(type, item) == [type |-> type, id |-> item.iid, gitlab_global_id |-> item.gid]

(* ---------------- identity-map file: config_loader.py ---------------- *)

\* the mapping file: absent, unparsable (truncated / partial JSON), or a JSON
\* object whose keys are strings
AbsentFile == [kind |-> "absent", data |-> [k \in {} |-> 0]]
CorruptFile == [kind |-> "corrupt", data |-> [k \in {} |-> 0]]

\* json.dump(mapping_data): integer keys are serialised as JSON object keys
JsonDump(map) ==
    [kind |-> "json",
     data |-> [k \in {ToString(s) : s \in DOMAIN map} |->
                 map[CHOOSE s \in DOMAIN map : ToString(s) = k]]]

\* a file that holds valid JSON which is not an object (a list, a number, null)
NotObjectFile == [kind |-> "array", data |-> [k \in {} |-> 0]]

\* a file that exists and cannot be opened for reading
UnreadableFile == [kind |-> "unreadable", data |-> [k \in {} |-> 0]]

\* int(k) succeeds: the key is the decimal form of an integer
IsIntKey(k) == \E i \in 0..(NumItems + 1) : ToString(i) = k

\* int(k) for a key that is the decimal form of a source id
IntOfKey(k) == CHOOSE i \in 0..(NumItems + 1) : ToString(i) = k

\* lines 16-23: the exception the body of the try raises for a file, "none"
\* when there is none (a missing file does not enter the try)
\*   open() on a file that cannot be read       OSError
\*   json.load on truncated / invalid JSON      JSONDecodeError
\*   .items() on a value that is not a dict     AttributeError
\*   int(k) on a key that is not an integer     ValueError
ParseException(file) ==
    CASE file.kind = "corrupt" -> "JSONDecodeError"
      [] file.kind = "unreadable" -> "OSError"
      [] file.kind = "array" -> "AttributeError"
      [] file.kind = "json" /\ \E k \in DOMAIN file.data : ~IsIntKey(k) -> "ValueError"
      [] OTHER -> "none"

\* variant: only the JSON decoding error is caught
load_mapping_catches_decode_only(exc) == exc = "JSONDecodeError"

\* lines 24-29: except (json.JSONDecodeError, ValueError), except Exception
load_mapping_catches(exc) ==
    \/ exc \in {"JSONDecodeError", "ValueError"}
    \/ exc \in {"AttributeError", "OSError"}

\* the exception leaves load_mapping
load_mapping_raises(file) ==
    ParseException(file) # "none" /\ ~load_mapping_catches(ParseException(file))

\* the level of the log record load_mapping writes: lines 22, 25, 28, 30
load_mapping_log(file) ==
    CASE file.kind = "absent" -> "INFO"
      [] ParseException(file) \in {"JSONDecodeError", "ValueError"} -> "WARNING"
      [] ParseException(file) # "none" -> "ERROR"
      [] OTHER -> "DEBUG"

\* load_mapping: {int(k): v for k, v in json.load(f).items()}, {} on a missing
\* file and on every exception of the load
load_mapping(file) ==
    IF file.kind = "json" /\ ParseException(file) = "none"
    THEN [s \in {IntOfKey(k) : k \in DOMAIN file.data} |-> file.data[ToString(s)]]
    ELSE EmptyMap

\* save_mapping: open(filepath, 'w') truncates, json.dump writes; the result
\* of the file for each way the save can go.  Exceptions are logged, not raised.
\*   "ok"         the whole map was written
\*   "open_fail"  open() raised: the file is untouched
\*   "write_fail" the write raised after the truncation: partial JSON
SaveOutcomes == {"ok", "open_fail", "write_fail"}

\* variant: the file is opened with mode 'a'
save_mapping_appending(map, file, outcome) ==
    CASE outcome = "ok" -> IF file.kind = "absent" THEN JsonDump(map) ELSE CorruptFile
      [] outcome = "open_fail" -> file
      [] OTHER -> CorruptFile

save_mapping(map, file, outcome) ==
    CASE outcome = "ok" -> JsonDump(map)
      [] outcome = "open_fail" -> file
      [] OTHER -> CorruptFile

(* ---------------- the target system (GitLab), as the engine sees it ---------------- *)

\* ids GitLab gives to the next created item of a kind: iid counts per kind,
\* the global id is distinct from every iid
NewItem(kind, s, items) ==
    LET n == Cardinality({t \in items : t.kind = kind}) + 1
    IN  [kind |-> kind, iid |-> n, gid |-> (IF kind = "epic" THEN 200 ELSE 100) + n, ado |-> s]

\* the link call a helper issues
EpicIssueCall(epic_iid, issue_global_id) ==
    [kind |-> "epic_issue", a |-> epic_iid, b |-> issue_global_id, link_type |-> "child"]
IssueLinkCall(source_iid, target_iid, link_type) ==
    [kind |-> "issue_link", a |-> source_iid, b |-> target_iid, link_type |-> link_type]
NoCall == [kind |-> "none", a |-> 0, b |-> 0, link_type |-> "null"]

\* variant: GitLab accepts the link again
LinkExists_never(c, links) == FALSE

\* GitLab answers "already assigned" / "already related" when the edge exists:
\* an issue is in an epic once, two issues are related once (either direction)
LinkExists(c, links) ==
    IF c.kind = "epic_issue"
    THEN c \in links
    ELSE \E l \in links : l.kind = "issue_link" /\ {l.a, l.b} = {c.a, c.b}

\* what get_ado_work_items_batch can return for a chunk under error_policy
\* "omit": the items in request order, any of them left out, [] on an exception
Restrict(seq, keep) == SelectSeq(seq, LAMBDA x : x \in keep)
FetchResults(seq) == {Restrict(seq, keep) : keep \in SUBSET {seq[i] : i \in 1..Len(seq)}}

(* ---------------- state of the engine ---------------- *)

VARIABLES
    \* ---- persistent across process restarts ----
    disk,              \* the identity-map file (ADO_GITLAB_MAP_FILE)
    gl_items,          \* epics and issues that exist in GitLab
    gl_links,          \* links that exist in GitLab
    \* ---- the running process (lost on exit or kill) ----
    pc,                \* position of main(): see the actions
    run,               \* number of process starts so far
    migrate_comments,  \* script_config['migrate_comments']
    ado_id_to_gitlab,  \* the in-memory identity map
    details,           \* all_ado_work_item_details_list of Phase 1
    idx,               \* position of the Phase 1 loop in details
    created_gl_item,   \* result of the create helper for the current item
    gitlab_item_for_comments,
    ado_comments_list, \* the comments fetched for the current item
    cidx,              \* position of the comment loop
    notes_posted,      \* comment ids posted as notes on gitlab_item_for_comments, in order
    batch2,            \* items_with_relations_batch of Phase 2
    j,                 \* position of the Phase 2 item loop
    k,                 \* position of the Phase 2 relation loop
    \* ---- observation of the run (not program state) ----
    create_calls,      \* per source id: item-create calls issued in this run
    loaded_ids,        \* source ids in the map when the run loaded it
    full_runs,         \* runs so far that fetched every source item and reached the end of main()
    last               \* what the last step of main() did

engine_vars == <<disk, gl_items, gl_links,
                 pc, run, migrate_comments, ado_id_to_gitlab, details, idx,
                 created_gl_item, gitlab_item_for_comments, ado_comments_list, cidx,
                 notes_posted, batch2, j, k, create_calls, loaded_ids, full_runs, last>>

persistent_vars == <<disk, gl_items, gl_links>>
history_vars == <<create_calls, loaded_ids, full_runs>>

\* a step of main(): the operation, the source id it is about, its result and
\* the kinds of mutating GitLab calls it issued
Step(op, id, result, calls) == [op |-> op, id |-> id, result |-> result, calls |-> calls]
NoStep == Step("none", 0, "none", {})

\* the process is not running: never started, exited normally, or killed
Stopped == pc \in {"not_started", "finished", "killed"}
InPhase1 == pc \in {"item", "translate", "create", "close", "put", "comments", "note"}
InPhase2 == pc \in {"p2_fetch", "p2_item", "p2_rel"}

\* the source item the Phase 1 loop is at
ado_work_item_id == details[idx]

EngineInit ==
    /\ disk = AbsentFile
    /\ gl_items = {} /\ gl_links = {}
    /\ pc = "not_started" /\ run = 0
    /\ migrate_comments \in BOOLEAN
    /\ ado_id_to_gitlab = EmptyMap
    /\ details = <<>> /\ idx = 1
    /\ created_gl_item = NoItem /\ gitlab_item_for_comments = NoItem
    /\ ado_comments_list = <<>>
    /\ cidx = 1 /\ notes_posted = <<>>
    /\ batch2 = <<>> /\ j = 1 /\ k = 1
    /\ create_calls = [s \in Ids |-> 0]
    /\ loaded_ids = {}
    /\ full_runs = 0
    /\ last = NoStep

(* ---------------- conditions of main(), main_migrator.py ---------------- *)

\* variant: the membership test is lost and every item is taken as new
already_mapped_never(s, map) == FALSE

\* line 243: if ado_work_item_id in ado_id_to_gitlab
already_mapped(s, map) == s \in DOMAIN map

\* variant: the result of the create helper is not tested
item_created_unchecked(item) == TRUE

\* line 417: if created_gl_item
item_created(item) == item # NoItem

\* variant: the dict is rebound to a one-entry dict instead of updated
put_replacing(map, s, rec) == [x \in {s} |-> rec]

\* line 421: ado_id_to_gitlab[ado_work_item_id] = {...}
put(map, s, rec) == [x \in DOMAIN map \cup {s} |-> IF x = s THEN rec ELSE map[x]]

\* variant: the loop stops one detail early
phase1_over_early(i, list) == i >= Len(list)

\* line 232: the Phase 1 loop has gone through every fetched detail
phase1_over(i, list) == i > Len(list)

\* the GitLab item an identity-map record refers to (issues.get / epics.get)
ItemOfRecord(rec, items) ==
    IF \E t \in items : t.kind = rec.type /\ t.iid = rec.id
    THEN CHOOSE t \in items : t.kind = rec.type /\ t.iid = rec.id
    ELSE NoItem

\* the memory of the process is gone
ProcessGone ==
    /\ ado_id_to_gitlab' = EmptyMap
    /\ details' = <<>> /\ idx' = 1
    /\ created_gl_item' = NoItem /\ gitlab_item_for_comments' = NoItem
    /\ ado_comments_list' = <<>> /\ cidx' = 1 /\ notes_posted' = <<>>
    /\ batch2' = <<>> /\ j' = 1 /\ k' = 1
    /\ create_calls' = [s \in Ids |-> 0]
    /\ loaded_ids' = {}

\* variant: break, the Phase 1 loop is left
LeaveLoop ==
    /\ idx' = Len(details) + 1
    /\ pc' = "item"
    /\ created_gl_item' = NoItem
    /\ gitlab_item_for_comments' = NoItem
    /\ ado_comments_list' = <<>> /\ cidx' = 1 /\ notes_posted' = <<>>

\* continue: the Phase 1 loop moves to the next fetched detail
ContinueWithNextItem ==
    /\ idx' = idx + 1
    /\ pc' = "item"
    /\ created_gl_item' = NoItem
    /\ gitlab_item_for_comments' = NoItem
    /\ ado_comments_list' = <<>> /\ cidx' = 1 /\ notes_posted' = <<>>

(* ---------------- process start: main() 142-229 ---------------- *)

\* the process starts: the map is loaded from the file, the ids are queried
\* and the details are fetched in one chunk
StartRun ==
    /\ Stopped
    /\ run < MaxRuns
    /\ run' = run + 1
    /\ ado_id_to_gitlab' = load_mapping(disk)
    /\ loaded_ids' = DOMAIN load_mapping(disk)
    /\ \E d \in FetchResults(all_ado_ids) : details' = d
    /\ idx' = 1
    /\ pc' = "item"
    /\ create_calls' = [s \in Ids |-> 0]
    /\ last' = Step("start", 0, "ok", {})
    /\ UNCHANGED <<persistent_vars, migrate_comments, created_gl_item,
                   gitlab_item_for_comments, ado_comments_list, cidx, notes_posted,
                   batch2, j, k, full_runs>>

(* ---------------- Phase 1: main() 232-484 ---------------- *)

\* variant: an item whose target could not be fetched is created again
FetchExisting_else_create(outcome) ==
    /\ pc = "item"
    /\ ~phase1_over(idx, details)
    /\ already_mapped(ado_work_item_id, ado_id_to_gitlab)
    /\ LET found == ItemOfRecord(ado_id_to_gitlab[ado_work_item_id], gl_items)
       IN  gitlab_item_for_comments' = IF outcome = "ok" THEN found ELSE NoItem
    /\ created_gl_item' = NoItem
    /\ pc' = IF outcome = "ok" THEN "comments" ELSE "create"
    /\ last' = Step("fetch_existing", ado_work_item_id, outcome, {})
    /\ UNCHANGED <<persistent_vars, run, migrate_comments, ado_id_to_gitlab, details, idx,
                   ado_comments_list, cidx, notes_posted, batch2, j, k, history_vars>>

\* lines 243-260: the item is mapped; the existing target item is fetched for
\* the comments, a failed fetch leaves gitlab_item_for_comments None
FetchExisting(outcome) ==
    /\ pc = "item"
    /\ ~phase1_over(idx, details)
    /\ already_mapped(ado_work_item_id, ado_id_to_gitlab)
    /\ LET found == ItemOfRecord(ado_id_to_gitlab[ado_work_item_id], gl_items)
       IN  gitlab_item_for_comments' = IF outcome = "ok" THEN found ELSE NoItem
    /\ created_gl_item' = NoItem
    /\ pc' = "comments"
    /\ last' = Step("fetch_existing", ado_work_item_id, outcome, {})
    /\ UNCHANGED <<persistent_vars, run, migrate_comments, ado_id_to_gitlab, details, idx,
                   ado_comments_list, cidx, notes_posted, batch2, j, k, history_vars>>

\* lines 262-407: the item is not mapped; description, footer, labels and
\* milestone are prepared.  get_or_create_gitlab_label creates the labels
\* GitLab does not know yet, get_or_create_gitlab_milestone the milestone when
\* no milestone of that title exists (calls: the create calls this issued);
\* their failures only drop the label or milestone.  An exception of the
\* preparation abandons the item.
Translate(outcome, calls) ==
    /\ pc = "item"
    /\ ~phase1_over(idx, details)
    /\ ~already_mapped(ado_work_item_id, ado_id_to_gitlab)
    /\ calls \subseteq {"label_create", "milestone_create"}
    /\ IF outcome = "raise"
       THEN ContinueWithNextItem
       ELSE /\ pc' = "create"
            /\ UNCHANGED <<idx, created_gl_item, gitlab_item_for_comments,
                           ado_comments_list, cidx, notes_posted>>
    /\ last' = Step("translate", ado_work_item_id, outcome, calls)
    /\ UNCHANGED <<persistent_vars, run, migrate_comments, ado_id_to_gitlab, details,
                   batch2, j, k, history_vars>>

\* lines 409-425: the create helper is called (epic for "epic", issue
\* otherwise); it returns the created item, or None when call_with_retry
\* returned the None sentinel or raised.  Without an item the loop continues.
CreateItem(outcome) ==
    /\ pc = "create"
    /\ LET s == ado_work_item_id
           type == gitlab_target_type_str(SourceType(s))
           kind == IF type = "epic" THEN "epic" ELSE "issue"
           item == IF outcome = "created" THEN NewItem(kind, s, gl_items) ELSE NoItem
       IN  /\ create_calls' = [create_calls EXCEPT ![s] = @ + 1]
           /\ gl_items' = IF outcome = "created" THEN gl_items \cup {item} ELSE gl_items
           /\ IF item_created(item)
              THEN /\ created_gl_item' = item
                   /\ pc' = IF type = "issue" /\ action_close_issue(SourceState(s))
                            THEN "close" ELSE "put"
                   /\ UNCHANGED <<idx, gitlab_item_for_comments, ado_comments_list, cidx,
                                  notes_posted>>
              ELSE ContinueWithNextItem
           /\ last' = Step("create", s, outcome, {"item_create"})
    /\ UNCHANGED <<disk, gl_links, run, migrate_comments, ado_id_to_gitlab, details,
                   batch2, j, k, loaded_ids, full_runs>>

\* lines 418-419, close_gitlab_issue: fetch the issue, set state_event, save;
\* a failure is logged and the item stays open
CloseIssue(outcome) ==
    /\ pc = "close"
    /\ pc' = "put"
    /\ last' = Step("close", ado_work_item_id, outcome,
                    IF outcome = "fetch_fail" THEN {} ELSE {"issue_close"})
    /\ UNCHANGED <<persistent_vars, run, migrate_comments, ado_id_to_gitlab, details, idx,
                   created_gl_item, gitlab_item_for_comments, ado_comments_list, cidx,
                   notes_posted, batch2, j, k, history_vars>>

\* lines 420-422: the mapping is put in memory and the whole map is saved
PutMapping(outcome) ==
    /\ pc = "put"
    /\ LET s == ado_work_item_id
           rec == MappingRecord(gitlab_target_type_str(SourceType(s)), created_gl_item)
           map == put(ado_id_to_gitlab, s, rec)
       IN  /\ ado_id_to_gitlab' = map
           /\ disk' = save_mapping(map, disk, outcome)
           /\ last' = Step("put", s, outcome, {})
    /\ gitlab_item_for_comments' = created_gl_item
    /\ pc' = "comments"
    /\ UNCHANGED <<gl_items, gl_links, run, migrate_comments, details, idx,
                   created_gl_item, ado_comments_list, cidx, notes_posted, batch2, j, k,
                   history_vars>>

\* lines 432-436: with comment migration on and a target item at hand the
\* comments are fetched ([] when the fetch fails)
FetchComments(outcome) ==
    /\ pc = "comments"
    /\ IF migrate_comments /\ gitlab_item_for_comments # NoItem
       THEN LET list == IF outcome = "ok" THEN ado_comments(ado_work_item_id) ELSE <<>>
            IN  IF list # <<>>
                THEN /\ ado_comments_list' = list
                     /\ cidx' = 1
                     /\ pc' = "note"
                     /\ UNCHANGED <<idx, created_gl_item, gitlab_item_for_comments,
                                    notes_posted>>
                ELSE ContinueWithNextItem
       ELSE /\ outcome = "ok"
            /\ ContinueWithNextItem
    /\ last' = Step("comments", ado_work_item_id, outcome, {})
    /\ UNCHANGED <<persistent_vars, run, migrate_comments, ado_id_to_gitlab, details,
                   batch2, j, k, history_vars>>

\* variant: a failed comment ends the comment loop
AddNote_then_break(outcome) ==
    /\ pc = "note"
    /\ cidx <= Len(ado_comments_list)
    /\ cidx' = IF outcome = "ok" THEN cidx + 1 ELSE Len(ado_comments_list) + 1
    /\ notes_posted' = IF outcome = "ok"
                       THEN Append(notes_posted, ado_comments_list[cidx])
                       ELSE notes_posted
    /\ UNCHANGED <<pc, idx, created_gl_item, gitlab_item_for_comments, ado_comments_list>>
    /\ last' = Step("note", ado_work_item_id, outcome,
                    IF outcome = "skip" THEN {} ELSE {"note_create"})
    /\ UNCHANGED <<persistent_vars, run, migrate_comments, ado_id_to_gitlab, details,
                   batch2, j, k, history_vars>>

\* lines 439-482: one comment is turned into a note and posted through
\* add_gitlab_note; "skip" is an exception before the post, "raise" a failed post
AddNote(outcome) ==
    /\ pc = "note"
    /\ cidx <= Len(ado_comments_list)
    /\ cidx' = cidx + 1
    /\ notes_posted' = IF outcome = "ok"
                       THEN Append(notes_posted, ado_comments_list[cidx])
                       ELSE notes_posted
    /\ UNCHANGED <<pc, idx, created_gl_item, gitlab_item_for_comments, ado_comments_list>>
    /\ last' = Step("note", ado_work_item_id, outcome,
                    IF outcome = "skip" THEN {} ELSE {"note_create"})
    /\ UNCHANGED <<persistent_vars, run, migrate_comments, ado_id_to_gitlab, details,
                   batch2, j, k, history_vars>>

\* line 439: the comment loop is over, the item is done
CommentsDone ==
    /\ pc = "note"
    /\ cidx > Len(ado_comments_list)
    /\ ContinueWithNextItem
    /\ last' = Step("comments_done", ado_work_item_id, "ok", {})
    /\ UNCHANGED <<persistent_vars, run, migrate_comments, ado_id_to_gitlab, details,
                   batch2, j, k, history_vars>>

\* line 486: the loop is over, Phase 2 starts
Phase1Done ==
    /\ pc = "item"
    /\ phase1_over(idx, details)
    /\ pc' = "p2_fetch"
    /\ last' = Step("phase1_done", 0, "ok", {})
    /\ UNCHANGED <<persistent_vars, run, migrate_comments, ado_id_to_gitlab, details, idx,
                   created_gl_item, gitlab_item_for_comments, ado_comments_list, cidx,
                   notes_posted, batch2, j, k, history_vars>>

(* ---------------- Phase 2: main() 486-591 ---------------- *)

\* lines 534-541: the referenced source id of a relation URL, 0 when the URL
\* does not match .../_apis/wit/workitems/{id}
target_ado_id(rel) == IF rel.url.kind = "workitem" THEN rel.url.id ELSE 0

\* variant: the source item of a hierarchical relation is always the parent
LinkCallFor_source_parent(source, rel, map) ==
    LET target == target_ado_id(rel)
    IN  IF target = 0 \/ target \notin DOMAIN map THEN NoCall
        ELSE LET source_gitlab_info == map[source]
                 target_gitlab_info == map[target]
                 forward == rel.rel = "System.LinkTypes.Hierarchy-Forward"
                 reverse == rel.rel = "System.LinkTypes.Hierarchy-Reverse"
                 parent_gl == source_gitlab_info
                 child_gl == target_gitlab_info
                 link_type == mapped_gl_link_type(rel.rel)
             IN  IF forward \/ reverse
                 THEN IF parent_gl.type = "epic" /\ child_gl.type = "issue"
                      THEN EpicIssueCall(parent_gl.id, child_gl.gitlab_global_id)
                      ELSE IF parent_gl.type = "issue" /\ child_gl.type = "issue"
                      THEN IssueLinkCall(parent_gl.id, child_gl.id, "relates_to")
                      ELSE NoCall
                 ELSE IF /\ link_type \notin {"null", "_parent_of_current_", "_child_of_current_"}
                         /\ source_gitlab_info.type = "issue"
                         /\ target_gitlab_info.type = "issue"
                      THEN IssueLinkCall(source_gitlab_info.id, target_gitlab_info.id, link_type)
                      ELSE NoCall

\* lines 547-582: the link call one relation leads to, NoCall when it is skipped
LinkCallFor(source, rel, map) ==
    LET target == target_ado_id(rel)
    IN  IF target = 0 \/ target \notin DOMAIN map THEN NoCall
        ELSE LET source_gitlab_info == map[source]
                 target_gitlab_info == map[target]
                 forward == rel.rel = "System.LinkTypes.Hierarchy-Forward"
                 reverse == rel.rel = "System.LinkTypes.Hierarchy-Reverse"
                 parent_gl == IF forward THEN target_gitlab_info ELSE source_gitlab_info
                 child_gl == IF forward THEN source_gitlab_info ELSE target_gitlab_info
                 link_type == mapped_gl_link_type(rel.rel)
             IN  IF forward \/ reverse
                 THEN IF parent_gl.type = "epic" /\ child_gl.type = "issue"
                      THEN EpicIssueCall(parent_gl.id, child_gl.gitlab_global_id)
                      ELSE IF parent_gl.type = "issue" /\ child_gl.type = "issue"
                      THEN IssueLinkCall(parent_gl.id, child_gl.id, "relates_to")
                      ELSE NoCall
                 ELSE IF /\ link_type \notin {"null", "_parent_of_current_", "_child_of_current_"}
                         /\ source_gitlab_info.type = "issue"
                         /\ target_gitlab_info.type = "issue"
                      THEN IssueLinkCall(source_gitlab_info.id, target_gitlab_info.id, link_type)
                      ELSE NoCall

\* lines 526-584: the levels of the log records main() itself writes for one
\* relation of a mapped source item, in order (the helpers log their calls)
main_relation_log(source, rel, map) ==
    LET target == target_ado_id(rel)
        forward == rel.rel = "System.LinkTypes.Hierarchy-Forward"
        reverse == rel.rel = "System.LinkTypes.Hierarchy-Reverse"
    IN  IF target = 0 THEN <<"DEBUG">>
        ELSE IF target \notin DOMAIN map THEN <<"DEBUG", "INFO">>
        ELSE LET parent_gl == IF forward THEN map[target] ELSE map[source]
                 child_gl == IF forward THEN map[source] ELSE map[target]
                 link_type == mapped_gl_link_type(rel.rel)
             IN  IF forward \/ reverse
                 THEN IF parent_gl.type = "epic" /\ child_gl.type = "issue"
                      THEN <<"DEBUG">>
                      ELSE <<"DEBUG", "INFO">>
                 ELSE IF link_type \in {"null", "_parent_of_current_", "_child_of_current_"}
                      THEN <<"DEBUG">>
                      ELSE IF map[source].type = "issue" /\ map[target].type = "issue"
                      THEN <<"DEBUG">>
                      ELSE <<"DEBUG", "INFO">>

\* variant: the handlers are set to DEBUG
handler_passes_all(level) == TRUE

\* lines 36 and 42: both handlers have setLevel(logging.INFO)
handler_passes(level) == level \in {"INFO", "WARNING", "ERROR", "CRITICAL"}

\* the records that reach the log file and the console
written(records) == SelectSeq(records, handler_passes)

\* lines 495-510: the ids of the query are fetched again, with relations
FetchRelations ==
    /\ pc = "p2_fetch"
    /\ \E b \in FetchResults(all_ado_ids) : batch2' = b
    /\ j' = 1 /\ k' = 1
    /\ pc' = "p2_item"
    /\ last' = Step("fetch_relations", 0, "ok", {})
    /\ UNCHANGED <<persistent_vars, run, migrate_comments, ado_id_to_gitlab, details, idx,
                   created_gl_item, gitlab_item_for_comments, ado_comments_list, cidx,
                   notes_posted, history_vars>>

\* lines 512-524: next item of the batch; an unmapped source item is skipped
NextLinkItem ==
    /\ pc = "p2_item"
    /\ j <= Len(batch2)
    /\ IF already_mapped(batch2[j], ado_id_to_gitlab)
       THEN pc' = "p2_rel" /\ k' = 1 /\ j' = j
       ELSE pc' = "p2_item" /\ k' = 1 /\ j' = j + 1
    /\ last' = Step("link_item", batch2[j],
                    IF already_mapped(batch2[j], ado_id_to_gitlab) THEN "mapped" ELSE "unmapped",
                    {})
    /\ UNCHANGED <<persistent_vars, run, migrate_comments, ado_id_to_gitlab, details, idx,
                   created_gl_item, gitlab_item_for_comments, ado_comments_list, cidx,
                   notes_posted, batch2, history_vars>>

\* variant: a failed link ends the relation loop of the item
ProcessRelation_then_break(outcome) ==
    /\ pc = "p2_rel"
    /\ k <= Len(Relations(batch2[j]))
    /\ LET call == LinkCallFor(batch2[j], Relations(batch2[j])[k], ado_id_to_gitlab)
       IN  IF call = NoCall
           THEN /\ outcome = "skipped"
                /\ UNCHANGED gl_links
           ELSE /\ outcome \in {"fetch_fail", "link_fail",
                                IF LinkExists(call, gl_links) THEN "duplicate" ELSE "linked"}
                /\ gl_links' = IF outcome = "linked" THEN gl_links \cup {call} ELSE gl_links
    /\ k' = IF outcome \in {"fetch_fail", "link_fail"}
            THEN Len(Relations(batch2[j])) + 1 ELSE k + 1
    /\ last' = Step("relation", batch2[j], outcome,
                    IF outcome \in {"skipped", "fetch_fail"} THEN {} ELSE {"link"})
    /\ UNCHANGED <<disk, gl_items, pc, run, migrate_comments, ado_id_to_gitlab, details,
                   idx, created_gl_item, gitlab_item_for_comments, ado_comments_list, cidx,
                   notes_posted, batch2, j, history_vars>>

\* lines 526-584: one relation of the current item.  A skipped relation issues
\* no call.  The link helper fetches the epic / source issue and issues the
\* link call; GitLab adds the link unless it exists already (duplicate signal,
\* absorbed by call_with_retry).
ProcessRelation(outcome) ==
    /\ pc = "p2_rel"
    /\ k <= Len(Relations(batch2[j]))
    /\ LET call == LinkCallFor(batch2[j], Relations(batch2[j])[k], ado_id_to_gitlab)
       IN  IF call = NoCall
           THEN /\ outcome = "skipped"
                /\ UNCHANGED gl_links
           ELSE /\ outcome \in {"fetch_fail", "link_fail",
                                IF LinkExists(call, gl_links) THEN "duplicate" ELSE "linked"}
                /\ gl_links' = IF outcome = "linked" THEN gl_links \cup {call} ELSE gl_links
    /\ k' = k + 1
    /\ last' = Step("relation", batch2[j], outcome,
                    IF outcome \in {"skipped", "fetch_fail"} THEN {} ELSE {"link"})
    /\ UNCHANGED <<disk, gl_items, pc, run, migrate_comments, ado_id_to_gitlab, details,
                   idx, created_gl_item, gitlab_item_for_comments, ado_comments_list, cidx,
                   notes_posted, batch2, j, history_vars>>

\* variant: the map is saved after the relations of each item
RelationsDone_then_save ==
    /\ pc = "p2_rel"
    /\ k > Len(Relations(batch2[j]))
    /\ j' = j + 1 /\ k' = 1
    /\ pc' = "p2_item"
    /\ disk' = save_mapping(ado_id_to_gitlab, disk, "ok")
    /\ last' = Step("relations_done", batch2[j], "ok", {})
    /\ UNCHANGED <<gl_items, gl_links, run, migrate_comments, ado_id_to_gitlab, details, idx,
                   created_gl_item, gitlab_item_for_comments, ado_comments_list, cidx,
                   notes_posted, batch2, history_vars>>

\* the relations of the current item are through
RelationsDone ==
    /\ pc = "p2_rel"
    /\ k > Len(Relations(batch2[j]))
    /\ j' = j + 1 /\ k' = 1
    /\ pc' = "p2_item"
    /\ last' = Step("relations_done", batch2[j], "ok", {})
    /\ UNCHANGED <<persistent_vars, run, migrate_comments, ado_id_to_gitlab, details, idx,
                   created_gl_item, gitlab_item_for_comments, ado_comments_list, cidx,
                   notes_posted, batch2, history_vars>>

\* line 591: the script finishes and the process exits
Finish ==
    /\ pc = "p2_item"
    /\ j > Len(batch2)
    /\ pc' = "finished"
    /\ ProcessGone
    /\ full_runs' = IF Len(details) = NumItems THEN full_runs + 1 ELSE full_runs
    /\ last' = Step("finish", 0, "ok", {})
    /\ UNCHANGED <<persistent_vars, run, migrate_comments>>

(* ---------------- the process is killed ---------------- *)

\* the current item has a target item created in this run and its comment
\* migration is not over
MidItem == pc \in {"close", "put", "comments", "note"} /\ item_created(created_gl_item)

\* the process is killed between two steps of main()
Kill ==
    /\ ~Stopped
    /\ pc' = "killed"
    /\ ProcessGone
    /\ last' = IF MidItem THEN Step("kill", ado_work_item_id, "mid_item", {})
               ELSE Step("kill", 0, "elsewhere", {})
    /\ UNCHANGED <<persistent_vars, run, migrate_comments, full_runs>>

\* the process is killed inside save_mapping, after open(filepath, 'w')
\* truncated the file and before json.dump wrote all of it
KillDuringSave ==
    /\ pc = "put"
    /\ disk' = CorruptFile
    /\ pc' = "killed"
    /\ ProcessGone
    /\ last' = Step("kill", ado_work_item_id, "mid_item", {})
    /\ UNCHANGED <<gl_items, gl_links, run, migrate_comments, full_runs>>

(* ---------------- call_with_retry: gitlab_interaction.py 17-57 ---------------- *)

\* error messages of a GitlabCreateError, word by word as GitLab sends them
MsgTaken == <<"Name", "has", "already", "been", "taken">>
MsgRelated == <<"Issue(s)", "ALREADY", "Related">>
MsgAssigned == <<"Issue", "already", "assigned">>
MsgMember == <<"Member", "already", "exists">>
MsgInvalid == <<"Label", "is", "invalid">>
MsgExists == <<"Epic", "already", "exists">>
CreateMessages == {MsgTaken, MsgRelated, MsgAssigned, MsgMember, MsgInvalid, MsgExists}

\* str.lower() on one word
LowerWord(w) ==
    CASE w = "Name" -> "name"
      [] w = "Issue(s)" -> "issue(s)"
      [] w = "ALREADY" -> "already"
      [] w = "Related" -> "related"
      [] w = "Issue" -> "issue"
      [] w = "Member" -> "member"
      [] w = "Label" -> "label"
      [] w = "Epic" -> "epic"
      [] w = "ProjectX" -> "projectx"
      [] w = "TeamA" -> "teama"
      [] w = "SubTeam" -> "subteam"
      [] OTHER -> w

\* str(e).lower()
Lower(msg) == [i \in 1..Len(msg) |-> LowerWord(msg[i])]

\* phrase in text
Contains(text, phrase) ==
    \E i \in 1..Len(text) :
        /\ i + Len(phrase) - 1 <= Len(text)
        /\ SubSeq(text, i, i + Len(phrase) - 1) = phrase

\* line 40: the substrings that mark a duplicate
DuplicatePhrases ==
    { <<"has", "already", "been", "taken">>, <<"already", "related">>,
      <<"already", "assigned">>, <<"member", "already", "exists">>,
      <<"title", "has", "already", "been", "taken">> }

\* variant: the message is matched without lower()
is_duplicate_case_sensitive(msg) == \E phrase \in DuplicatePhrases : Contains(msg, phrase)

\* line 40: any(msg in str(e_create).lower() for msg in [...])
is_duplicate(msg) == \E phrase \in DuplicatePhrases : Contains(Lower(msg), phrase)

\* what one invocation of the wrapped operation does: it returns, or raises
\* one of the exception classes the wrapper tells apart
Returns == [exc |-> "none", code |-> 0, msg |-> <<>>]
Raises(exc, code, msg) == [exc |-> exc, code |-> code, msg |-> msg]
HttpCodes == {400, 429, 500, 502, 503, 504}
TransportOutcomes ==
    {Raises("ReadTimeout", 0, <<>>), Raises("ConnectTimeout", 0, <<>>),
     Raises("ValueError", 0, <<>>)}
      \cup {Raises("GitlabHttpError", c, <<>>) : c \in HttpCodes}
GetOutcomes ==
    {Returns} \cup TransportOutcomes \cup {Raises("GitlabGetError", c, <<>>) : c \in {404, 500}}
CreateOutcomes ==
    {Returns} \cup TransportOutcomes \cup {Raises("GitlabCreateError", 409, m) : m \in CreateMessages}
OperationOutcomes(op) ==
    IF op = "get" THEN GetOutcomes
    ELSE IF op = "create" THEN CreateOutcomes
    ELSE GetOutcomes \cup CreateOutcomes

\* variant: the response code of a GitlabHttpError is not looked at
is_retryable_any_code(e) == e.exc \in {"GitlabHttpError", "ReadTimeout", "ConnectTimeout"}

\* lines 26-27: is_retryable_http_error or is_timeout_error
is_retryable(e) ==
    \/ e.exc = "GitlabHttpError" /\ e.code \in {429, 500, 502, 503, 504}
    \/ e.exc \in {"ReadTimeout", "ConnectTimeout"}

\* variant: a constant delay
backoff_delay_constant(n) == RETRY_DELAY_SECONDS

\* line 35: time.sleep(RETRY_DELAY_SECONDS * (attempt + 1)), attempt from 0
backoff_delay(n) == RETRY_DELAY_SECONDS * (n + 1)

\* variant: the last attempt sleeps too instead of raising
may_retry_always(n) == TRUE

\* line 34: if attempt < MAX_RETRIES - 1 (sleep and loop), else raise
may_retry(n) == n < MAX_RETRIES - 1

\* results of call_with_retry
Pending == [kind |-> "pending", of |-> 0, error |-> Returns]
ReturnedValue(n) == [kind |-> "value", of |-> n, error |-> Returns]
ReturnedNone == [kind |-> "None", of |-> 0, error |-> Returns]
Raised(n, e) == [kind |-> "raised", of |-> n, error |-> e]

VARIABLES
    r_helper,      \* the caller: "call" (a bare call), or one of the two link helpers
    r_stage,       \* the call the caller is at: "idle", "fetch", "link", "call"
    r_op,          \* kind of the wrapped operation: "get", "create", "any"
    r_pc,          \* call_with_retry: "invoke", "sleep", "done"; "idle" outside a call
    attempt,       \* loop variable of call_with_retry, from 0
    r_invocations, \* invocations of the operation in this call
    r_sleeps,      \* delays slept in this call, in order
    r_outcomes,    \* what the invocations of this call did, in order
    r_result,      \* result of the call
    helper_result, \* what the link helper returned: "pending", "True", "False"
    r_label_name   \* the label_name get_or_create_gitlab_label is called with

retry_vars == <<r_helper, r_stage, r_op, r_pc, attempt, r_invocations, r_sleeps,
                r_outcomes, r_result, helper_result, r_label_name>>

RetryInit ==
    /\ r_helper = "none" /\ r_stage = "idle" /\ r_op = "any" /\ r_pc = "idle"
    /\ attempt = 0 /\ r_invocations = 0
    /\ r_sleeps = <<>> /\ r_outcomes = <<>>
    /\ r_result = Pending
    /\ helper_result = "pending"
    /\ r_label_name = <<>>

\* a call of call_with_retry begins: for attempt in range(MAX_RETRIES)
BeginCall(op) ==
    /\ r_op' = op
    /\ r_pc' = "invoke"
    /\ attempt' = 0 /\ r_invocations' = 0
    /\ r_sleeps' = <<>> /\ r_outcomes' = <<>>
    /\ r_result' = Pending

\* the helpers of gitlab_interaction.py that fetch before they create, and
\* those that only create
LinkHelpers == {"link_gitlab_issues", "link_gitlab_epic_issue"}
FetchFirstHelpers == LinkHelpers \cup {"get_or_create_gitlab_label"}
CreateOnlyHelpers == {"create_gitlab_epic", "create_gitlab_issue", "add_gitlab_note"}
Helpers == {"call"} \cup FetchFirstHelpers \cup CreateOnlyHelpers

\* a caller starts: a bare call of call_with_retry on any operation; a link
\* helper or get_or_create_gitlab_label, which first fetch (the epic, the
\* source issue, the label); or a helper that makes its create call at once
StartCaller(helper, op) ==
    /\ r_stage = "idle"
    /\ r_helper' = helper
    /\ IF helper = "call"
       THEN r_stage' = "call" /\ BeginCall(op)
       ELSE IF helper \in FetchFirstHelpers
       THEN r_stage' = "fetch" /\ op = "get" /\ BeginCall("get")
       ELSE r_stage' = "create" /\ op = "create" /\ BeginCall("create")
    /\ r_label_name' = IF helper = "get_or_create_gitlab_label" THEN <<"bug">> ELSE <<>>
    /\ UNCHANGED helper_result

\* get_or_create_gitlab_label 82-84: if not label_name: return None
LabelEmptyName ==
    /\ r_stage = "idle"
    /\ r_helper' = "get_or_create_gitlab_label"
    /\ r_label_name' = <<>>
    /\ helper_result' = "None"
    /\ r_stage' = "returned"
    /\ UNCHANGED <<r_op, r_pc, attempt, r_invocations, r_sleeps, r_outcomes, r_result>>

\* lines 22-57: one pass of the loop body: the operation is invoked; its value
\* is returned, or the exception is handled by the first matching clause
Invoke(e) ==
    /\ r_pc = "invoke"
    /\ attempt < MAX_RETRIES
    /\ e \in OperationOutcomes(r_op)
    /\ r_invocations' = r_invocations + 1
    /\ r_outcomes' = Append(r_outcomes, e)
    /\ IF e.exc = "none"
       THEN r_pc' = "done" /\ r_result' = ReturnedValue(r_invocations + 1)
       ELSE IF e.exc \in {"ReadTimeout", "ConnectTimeout", "GitlabHttpError"}
       THEN IF ~is_retryable(e)
            THEN r_pc' = "done" /\ r_result' = Raised(r_invocations + 1, e)
            ELSE IF may_retry(attempt)
                 THEN r_pc' = "sleep" /\ UNCHANGED r_result
                 ELSE r_pc' = "done" /\ r_result' = Raised(r_invocations + 1, e)
       ELSE IF e.exc = "GitlabCreateError"
       THEN IF is_duplicate(e.msg)
            THEN r_pc' = "done" /\ r_result' = ReturnedNone
            ELSE r_pc' = "done" /\ r_result' = Raised(r_invocations + 1, e)
       ELSE r_pc' = "done" /\ r_result' = Raised(r_invocations + 1, e)
    /\ UNCHANGED <<r_helper, r_stage, r_op, attempt, r_sleeps, helper_result, r_label_name>>

\* line 35: time.sleep(...), then the next pass of the loop
Sleep ==
    /\ r_pc = "sleep"
    /\ r_sleeps' = Append(r_sleeps, backoff_delay(attempt))
    /\ attempt' = attempt + 1
    /\ r_pc' = "invoke"
    /\ UNCHANGED <<r_helper, r_stage, r_op, r_invocations, r_outcomes, r_result,
                   helper_result, r_label_name>>

\* lines 161 / 175: the helper reports success unless the link call raised
link_reported(result) == IF result.kind = "raised" THEN "False" ELSE "True"

\* link_gitlab_epic_issue 156-167 and link_gitlab_issues 169-181 after the
\* fetch: an exception or a falsy fetch result gives False, else the link call
\* is made through call_with_retry
HelperAfterFetch ==
    /\ r_helper \in LinkHelpers
    /\ r_stage = "fetch" /\ r_pc = "done"
    /\ IF r_result.kind = "value"
       THEN /\ r_stage' = "link"
            /\ BeginCall("create")
            /\ UNCHANGED helper_result
       ELSE /\ helper_result' = "False"
            /\ r_stage' = "returned"
            /\ UNCHANGED <<r_op, r_pc, attempt, r_invocations, r_sleeps, r_outcomes, r_result>>
    /\ UNCHANGED <<r_helper, r_label_name>>

\* ... after the link call: True whether the call returned a value or the
\* None sentinel, False when it raised
HelperAfterLink ==
    /\ r_helper \in LinkHelpers
    /\ r_stage = "link" /\ r_pc = "done"
    /\ helper_result' = link_reported(r_result)
    /\ r_stage' = "returned"
    /\ UNCHANGED <<r_helper, r_op, r_pc, attempt, r_invocations, r_sleeps, r_outcomes,
                   r_result, r_label_name>>

\* create_gitlab_epic 112-120, create_gitlab_issue 122-130: the result of
\* call_with_retry is returned as it is (the item, or None), an exception
\* gives None.  add_gitlab_note 146-154: True unless the call raised.
create_reported(helper, result) ==
    IF helper = "add_gitlab_note"
    THEN (IF result.kind = "raised" THEN "False" ELSE "True")
    ELSE (IF result.kind = "value" THEN "item" ELSE "None")

HelperAfterCreate ==
    /\ r_helper \in CreateOnlyHelpers
    /\ r_stage = "create" /\ r_pc = "done"
    /\ helper_result' = create_reported(r_helper, r_result)
    /\ r_stage' = "returned"
    /\ UNCHANGED <<r_helper, r_op, r_pc, attempt, r_invocations, r_sleeps, r_outcomes,
                   r_result, r_label_name>>

\* variant: any GitlabGetError leads to the create
label_not_found_any_code(result) ==
    result.kind = "raised" /\ result.error.exc = "GitlabGetError"

\* lines 89-90: except GitlabGetError ... if e_get_label.response_code == 404
label_not_found(result) ==
    result.kind = "raised" /\ result.error.exc = "GitlabGetError" /\ result.error.code = 404

\* get_or_create_gitlab_label 86-110 after labels.get: the label exists and
\* its name is returned; a GitlabGetError 404 leads to labels.create; any
\* other exception gives None
LabelAfterGet ==
    /\ r_helper = "get_or_create_gitlab_label"
    /\ r_stage = "fetch" /\ r_pc = "done"
    /\ IF label_not_found(r_result)
       THEN /\ r_stage' = "create"
            /\ BeginCall("create")
            /\ UNCHANGED helper_result
       ELSE /\ helper_result' = IF r_result.kind = "raised" THEN "None" ELSE "label_name"
            /\ r_stage' = "returned"
            /\ UNCHANGED <<r_op, r_pc, attempt, r_invocations, r_sleeps, r_outcomes, r_result>>
    /\ UNCHANGED <<r_helper, r_label_name>>

\* ... after labels.create (99-104): the name is returned whatever the call
\* returned, None when it raised
LabelAfterCreate ==
    /\ r_helper = "get_or_create_gitlab_label"
    /\ r_stage = "create" /\ r_pc = "done"
    /\ helper_result' = IF r_result.kind = "raised" THEN "None" ELSE "label_name"
    /\ r_stage' = "returned"
    /\ UNCHANGED <<r_helper, r_op, r_pc, attempt, r_invocations, r_sleeps, r_outcomes,
                   r_result, r_label_name>>

\* what the caller of a helper makes of its result: main() 417-425 takes a
\* falsy result of the create helper as a failed item (error log, continue);
\* main() 363 drops a label whose resolution gave None; a False of a note or
\* link helper was logged as a warning by the helper
handled_as_failed(helper, hres) ==
    \/ helper \in {"create_gitlab_epic", "create_gitlab_issue"} /\ hres = "None"
    \/ helper = "get_or_create_gitlab_label" /\ hres = "None"
    \/ helper \in LinkHelpers \cup {"add_gitlab_note"} /\ hres = "False"

AllOutcomes == GetOutcomes \cup CreateOutcomes

RetryNext ==
    \/ \E helper \in Helpers, op \in {"get", "create", "any"} : StartCaller(helper, op)
    \/ \E e \in AllOutcomes : Invoke(e)
    \/ Sleep
    \/ HelperAfterFetch
    \/ HelperAfterLink
    \/ HelperAfterCreate
    \/ LabelEmptyName
    \/ LabelAfterGet
    \/ LabelAfterCreate

(* ---------------- load_mapping on any file: config_loader.py 14-31 ---------------- *)

\* keys a mapping file can hold: decimal source ids, and keys int() rejects
StoreKeys == {ToString(i) : i \in Ids} \cup {"x", "1.5"}

\* the record stored under a key
StoredRecord(key) ==
    [type |-> "issue", id |-> IF IsIntKey(key) THEN IntOfKey(key) ELSE 9,
     gitlab_global_id |-> 100 + (IF IsIntKey(key) THEN IntOfKey(key) ELSE 9)]

\* the contents the mapping file can have when the process starts
StoreFiles ==
    {AbsentFile, CorruptFile, NotObjectFile, UnreadableFile}
      \cup {[kind |-> "json", data |-> [key \in keys |-> StoredRecord(key)]] :
               keys \in SUBSET StoreKeys}

NotLoaded ==
    [kind |-> "not_loaded", of |-> AbsentFile, exc |-> "none", map |-> EmptyMap, log |-> "none"]

\* the maps save_mapping is called with: integer source ids to records
SaveMaps ==
    UNION {[keys -> {"epic", "issue"}] : keys \in SUBSET Ids}

RecordsOf(types) ==
    [s \in DOMAIN types |-> [type |-> types[s], id |-> 10 + s, gitlab_global_id |-> 100 + s]]

NotSaved == [kind |-> "none", map |-> EmptyMap]

VARIABLES
    map_file,      \* the mapping file load_mapping is called on
    load_result,   \* what the last call did, and on which file: returned a map
                   \* (after a log record) or raised
    saved_map      \* the map the last save_mapping call wrote into the file in
                   \* full, when the file is as that call left it

store_vars == <<map_file, load_result, saved_map>>

StoreIdle == map_file = AbsentFile /\ load_result = NotLoaded /\ saved_map = NotSaved

StoreInit == map_file \in StoreFiles /\ load_result = NotLoaded /\ saved_map = NotSaved

\* the file is in some state when the process starts: written by an earlier
\* run, cut short by a kill, edited or removed
WriteMapFile(file) ==
    /\ file \in StoreFiles
    /\ file # map_file
    /\ map_file' = file
    /\ saved_map' = NotSaved
    /\ UNCHANGED load_result

\* save_mapping(mapping_data, filepath): lines 33-40, the exception of a failed
\* open or write is caught and logged
SaveMapping(types, outcome) ==
    /\ map_file' = save_mapping(RecordsOf(types), map_file, outcome)
    /\ saved_map' = CASE outcome = "ok" -> [kind |-> "saved", map |-> RecordsOf(types)]
                      [] outcome = "open_fail" -> saved_map
                      [] OTHER -> NotSaved
    /\ UNCHANGED load_result

\* main() 165: load_mapping(filepath=ADO_GITLAB_MAP_FILE)
LoadMapping ==
    /\ load_result' =
          IF load_mapping_raises(map_file)
          THEN [kind |-> "raised", of |-> map_file, exc |-> ParseException(map_file),
                map |-> EmptyMap, log |-> "none"]
          ELSE [kind |-> "returned", of |-> map_file, exc |-> "none",
                map |-> load_mapping(map_file), log |-> load_mapping_log(map_file)]
    /\ UNCHANGED <<map_file, saved_map>>

StoreNext ==
    \/ \E file \in StoreFiles : WriteMapFile(file)
    \/ \E types \in SaveMaps, outcome \in SaveOutcomes : SaveMapping(types, outcome)
    \/ LoadMapping

(* ---------------- strings of the translation: main() 324-357 ---------------- *)

\* a string is a sequence of tokens; a token is a word, a blank or a separator

\* str.split(sep): the pieces between the separators, empty pieces included
RECURSIVE Split(_, _)
Split(str, sep) ==
    IF \A i \in 1..Len(str) : str[i] # sep
    THEN <<str>>
    ELSE LET i == CHOOSE n \in 1..Len(str) :
                      str[n] = sep /\ \A m \in 1..(n - 1) : str[m] # sep
         IN  <<SubSeq(str, 1, i - 1)>> \o Split(SubSeq(str, i + 1, Len(str)), sep)

\* str.strip(): leading and trailing blanks removed
Strip(str) ==
    IF \A i \in 1..Len(str) : str[i] = " "
    THEN <<>>
    ELSE LET a == CHOOSE n \in 1..Len(str) :
                      str[n] # " " /\ \A m \in 1..(n - 1) : str[m] = " "
             b == CHOOSE n \in 1..Len(str) :
                      str[n] # " " /\ \A m \in (n + 1)..Len(str) : str[m] = " "
         IN  SubSeq(str, a, b)

\* [piece.strip() for piece in str.split(sep) if piece.strip()]
StrippedPieces(str, sep) ==
    LET pieces == Split(str, sep)
        stripped == [i \in 1..Len(pieces) |-> Strip(pieces[i])]
    IN  SelectSeq(stripped, LAMBDA piece : piece # <<>>)

\* sep.join(pieces)
RECURSIVE Join(_, _)
Join(pieces, sep) ==
    IF pieces = <<>> THEN <<>>
    ELSE IF Len(pieces) = 1 THEN pieces[1]
    ELSE pieces[1] \o <<sep>> \o Join(Tail(pieces), sep)

(* ---------------- area-path labels: main() 330-357 ---------------- *)

\* config.AZURE_PROJECT and the script_config values of lines 331-334
AZURE_PROJECT == <<"ProjectX">>
area_prefix == "area::"
level_sep == "\\"
gitlab_sep == "::"

\* line 336-338: the segments of the path, stripped, the empty ones left out,
\* the first one dropped when it is the project name in any casing
path_segments(ado_area_path) ==
    LET segs == StrippedPieces(ado_area_path, level_sep)
    IN  IF segs # <<>> /\ Lower(segs[1]) = Lower(AZURE_PROJECT) THEN Tail(segs) ELSE segs

\* lines 350-355: current_hier_path after the pass of the loop for segment i
RECURSIVE current_hier_path(_, _)
current_hier_path(segs, i) ==
    IF i = 1 THEN segs[1]
    ELSE current_hier_path(segs, i - 1) \o <<gitlab_sep>> \o segs[i]

\* variant: the hierarchical strategy restarts the path at every segment
area_labels_of_flat_hierarchy(ado_area_path, strategy) ==
    LET segs == path_segments(ado_area_path)
    IN  IF strategy \in {"all_segments", "all_segments_hierarchical"}
        THEN [i \in 1..Len(segs) |-> <<area_prefix>> \o segs[i]]
        ELSE IF segs = <<>> THEN <<>>
        ELSE IF strategy = "last_segment_only" THEN << <<area_prefix>> \o segs[Len(segs)] >>
        ELSE << <<area_prefix>> \o Join(segs, gitlab_sep) >>

\* lines 330-357: the labels the area path adds to labels_to_apply_names, in
\* order; none for an empty path
area_labels_of(ado_area_path, strategy) ==
    LET segs == path_segments(ado_area_path)
    IN  IF ado_area_path = <<>> \/ segs = <<>> THEN <<>>
        ELSE CASE strategy = "last_segment_only" ->
                     << <<area_prefix>> \o segs[Len(segs)] >>
               [] strategy = "full_path" ->
                     << <<area_prefix>> \o Join(segs, gitlab_sep) >>
               [] strategy = "all_segments" ->
                     [i \in 1..Len(segs) |-> <<area_prefix>> \o segs[i]]
               [] strategy = "all_segments_hierarchical" ->
                     [i \in 1..Len(segs) |-> <<area_prefix>> \o current_hier_path(segs, i)]
               [] OTHER -> <<>>

\* longest area path of the model, in tokens
MaxPathLen == 5

\* tokens of an area path
PathTokens == {"ProjectX", "projectx", "TeamA", "SubTeam", " ", level_sep}

\* the area paths of the model
RECURSIVE StringsUpTo(_, _)
StringsUpTo(tokens, n) ==
    IF n = 0 THEN {<<>>}
    ELSE LET shorter == StringsUpTo(tokens, n - 1)
         IN  shorter \cup {Append(str, t) : str \in shorter, t \in tokens}
AreaPaths == StringsUpTo(PathTokens, MaxPathLen)

\* script_config['area_path_handling_strategy']
Strategies == {"last_segment_only", "full_path", "all_segments", "all_segments_hierarchical"}

VARIABLES
    area_path,     \* System.AreaPath of the item
    strategy,      \* area_path_handling_strategy
    area_labels,   \* the labels the area block appended
    a_pc           \* "input": before the block, "derived": after it

area_vars == <<area_path, strategy, area_labels, a_pc>>

AreaIdle ==
    /\ area_path = <<>> /\ strategy = "last_segment_only"
    /\ area_labels = <<>> /\ a_pc = "input"

AreaInit ==
    /\ area_path \in AreaPaths
    /\ strategy \in Strategies
    /\ area_labels = <<>> /\ a_pc = "input"

\* lines 330-357 with migrate_area_paths_to_labels on
DeriveAreaLabels ==
    /\ a_pc = "input"
    /\ area_labels' = area_labels_of(area_path, strategy)
    /\ a_pc' = "derived"
    /\ UNCHANGED <<area_path, strategy>>

AreaNext == DeriveAreaLabels

(* ---------------- translation of one item: main() 262-429 ---------------- *)

\* most distinct label names one item of the model derives
MaxLabels == 3

\* the elements of a list
Range(list) == {list[i] : i \in 1..Len(list)}

\* lines 307-315: labels of the state: the configured labels of a mapped state
\* ("Closed" is mapped, with the close action), else the prefixed state name
state_labels(ado_state) ==
    IF ado_state = "Closed" THEN << <<"status::done">> >>
    ELSE IF ado_state # "Undefined" THEN << <<"ado_state::", ado_state>> >>
    ELSE <<>>

\* lines 317-320: label of the priority (0: the item has none; 1 is mapped)
priority_labels(ado_priority_val) ==
    IF ado_priority_val = 0 THEN <<>>
    ELSE IF ado_priority_val = 1 THEN << <<"priority::high">> >>
    ELSE << <<"ado_priority::", ToString(ado_priority_val)>> >>

\* line 322: label of the type, for issues only
type_labels(ado_type) ==
    IF gitlab_target_type_str(ado_type) # "epic" THEN << <<"ado_type::", ado_type>> >> ELSE <<>>

\* lines 324-327: one label per tag of the ';'-separated tag string (the
\* configured tag prefix is empty)
tag_labels(ado_tags_string) == StrippedPieces(ado_tags_string, ";")

\* lines 303-357: labels_to_apply_names, in the order of the rules (area paths
\* under the strategy all_segments)
derived_labels(fields) ==
    state_labels(fields.state) \o priority_labels(fields.priority)
       \o type_labels(fields.type) \o tag_labels(fields.tags)
       \o area_labels_of(fields.area, "all_segments")

\* variant: the list is walked as it is
list_as_it_is(names) == {names}

\* line 360: list(set(labels_to_apply_names)): the distinct names, in any order
list_of_set(names) ==
    LET distinct == Range(names)
        n == Cardinality(distinct)
    IN  {q \in [1..n -> distinct] : \A a, b \in 1..n : q[a] = q[b] => a = b}

\* variant: the result of the resolution is not tested
label_kept_always(created_label_name) == TRUE

\* line 363: if created_label_name
label_kept(created_label_name) == created_label_name # <<"None">>

\* the source items of the model
TranslateFields ==
    {f \in [type : {"Bug", "Epic"}, state : {"Active", "Closed"}, priority : {0, 2},
            tags : {<<>>, <<"urgent">>, <<"urgent", ";", " ", "urgent">>,
                    <<"ado_type::", "Bug", ";", "urgent">>},
            area : {<<>>, <<"ProjectX", level_sep, "TeamA", level_sep, "TeamA">>},
            iteration : {<<>>, <<"Sprint1">>}] :
        Cardinality(Range(derived_labels(f))) <= MaxLabels}

NoPayload == [labels |-> <<>>, milestone_id |-> 0]

VARIABLES
    t_fields,               \* ado_work_item_details.fields
    t_pc,                   \* position in the translation of the item
    labels_to_apply_names,  \* the derived label names
    label_queue,            \* list(set(labels_to_apply_names)), the part not yet walked
    resolve_calls,          \* calls of get_or_create_gitlab_label: name and result, in order
    final_gl_labels,
    milestone_obj,          \* "unset" (not asked for), "None", "milestone"
    item_payload,           \* labels and milestone_id (0: no such key) of the create call
    t_mapped                \* the item was created and its mapping recorded

translate_vars == <<t_fields, t_pc, labels_to_apply_names, label_queue, resolve_calls,
                    final_gl_labels, milestone_obj, item_payload, t_mapped>>

TranslateIdle ==
    /\ t_fields = [type |-> "Bug", state |-> "Active", priority |-> 0, tags |-> <<>>,
                   area |-> <<>>, iteration |-> <<>>]
    /\ t_pc = "derive"
    /\ labels_to_apply_names = <<>> /\ label_queue = <<>>
    /\ resolve_calls = <<>> /\ final_gl_labels = <<>>
    /\ milestone_obj = "unset" /\ item_payload = NoPayload
    /\ t_mapped = FALSE

TranslateInit ==
    /\ t_fields \in TranslateFields
    /\ t_pc = "derive"
    /\ labels_to_apply_names = <<>> /\ label_queue = <<>>
    /\ resolve_calls = <<>> /\ final_gl_labels = <<>>
    /\ milestone_obj = "unset" /\ item_payload = NoPayload
    /\ t_mapped = FALSE

\* lines 263-360: description, footer and label names are prepared; an
\* exception here is caught at line 427 and abandons the item
DeriveLabels(outcome) ==
    /\ t_pc = "derive"
    /\ IF outcome = "raise"
       THEN /\ t_pc' = "abandoned_translate"
            /\ UNCHANGED <<labels_to_apply_names, label_queue>>
       ELSE /\ labels_to_apply_names' = derived_labels(t_fields)
            /\ label_queue' \in list_of_set(derived_labels(t_fields))
            /\ t_pc' = "labels"
    /\ UNCHANGED <<t_fields, resolve_calls, final_gl_labels, milestone_obj, item_payload,
                   t_mapped>>

\* lines 360-364: one pass of the label loop: get_or_create_gitlab_label
\* returns the name, or None when the label could not be fetched or created
ResolveLabel(outcome) ==
    /\ t_pc = "labels"
    /\ label_queue # <<>>
    /\ LET label_name == Head(label_queue)
           created_label_name == IF outcome = "resolved" THEN label_name ELSE <<"None">>
       IN  /\ resolve_calls' = Append(resolve_calls, [name |-> label_name, result |-> outcome])
           /\ final_gl_labels' = IF label_kept(created_label_name)
                                 THEN Append(final_gl_labels, created_label_name)
                                 ELSE final_gl_labels
    /\ label_queue' = Tail(label_queue)
    /\ UNCHANGED <<t_fields, t_pc, labels_to_apply_names, milestone_obj, item_payload,
                   t_mapped>>

\* lines 366-407: the payload is built; with an iteration path the milestone
\* is resolved, get_or_create_gitlab_milestone returning the milestone or None
ResolveMilestone(outcome) ==
    /\ t_pc = "labels"
    /\ label_queue = <<>>
    /\ IF t_fields.iteration # <<>>
       THEN /\ outcome \in {"milestone", "None"}
            /\ milestone_obj' = outcome
            /\ item_payload' = [labels |-> final_gl_labels,
                                milestone_id |-> IF outcome = "milestone" THEN 7 ELSE 0]
       ELSE /\ outcome = "unset"
            /\ milestone_obj' = "unset"
            /\ item_payload' = [labels |-> final_gl_labels, milestone_id |-> 0]
    /\ t_pc' = "create"
    /\ UNCHANGED <<t_fields, labels_to_apply_names, label_queue, resolve_calls,
                   final_gl_labels, t_mapped>>

\* lines 409-425: the create helper is called with the payload; with an item
\* returned the issue is closed when the state asks for it, the mapping is
\* put and saved; without one the item is abandoned
CreateAndMap(outcome) ==
    /\ t_pc = "create"
    /\ IF outcome = "created"
       THEN t_pc' = "migrated" /\ t_mapped' = TRUE
       ELSE t_pc' = "abandoned_create" /\ t_mapped' = FALSE
    /\ UNCHANGED <<t_fields, labels_to_apply_names, label_queue, resolve_calls,
                   final_gl_labels, milestone_obj, item_payload>>

TranslateNext ==
    \/ \E outcome \in {"ok", "raise"} : DeriveLabels(outcome)
    \/ \E outcome \in {"resolved", "None"} : ResolveLabel(outcome)
    \/ \E outcome \in {"milestone", "None", "unset"} : ResolveMilestone(outcome)
    \/ \E outcome \in {"created", "none", "raise"} : CreateAndMap(outcome)

(* ---------------- process setup: main() 142-166 ---------------- *)

\* migration_config.yaml as the process finds it: missing; not parsable as
\* YAML; an empty document (yaml.safe_load gives None); or a mapping, of which
\* the model keeps default_gitlab_type ("absent": the key is not there)
ConfigFile(exists, yaml, default_type) ==
    [exists |-> exists, yaml |-> yaml, default_gitlab_type |-> default_type]
ConfigFiles ==
    {ConfigFile(FALSE, "none", "absent"), ConfigFile(TRUE, "error", "absent"),
     ConfigFile(TRUE, "null", "absent")}
      \cup {ConfigFile(TRUE, "mapping", t) : t \in {"issue", "epic", "task", "absent"}}

\* validate_migration_config of src/ado_migration/config_loader.py 13-68
\* raises: a required field is missing, or default_gitlab_type is not one of
\* 'epic', 'issue'
validation_fails(config) ==
    \/ config.default_gitlab_type = "absent"
    \/ config.default_gitlab_type \notin {"epic", "issue"}

\* load_migration_config of src/config_loader.py 42-58, the module main()
\* imports: None for a missing file, a YAML error or an empty document, else
\* the parsed data as it is
load_migration_config(file) ==
    IF ~file.exists \/ file.yaml \in {"error", "null"} THEN "None" ELSE "config_data"

VARIABLES
    cfg_file,      \* migration_config.yaml
    ado_conn,      \* init_ado_connection: "ok", "fail"
    ado_project,   \* ado_core_client.get_project: "found", "not_found"
    gl_conn,       \* init_gitlab_connection: "ok", "auth_fail", "project_not_found",
                   \* "group_not_found"
    s_pc,          \* position of main() in the setup
    exit_status    \* -1 while the process runs, else the status of sys.exit

setup_vars == <<cfg_file, ado_conn, ado_project, gl_conn, s_pc, exit_status>>

SetupIdle ==
    /\ cfg_file = ConfigFile(TRUE, "mapping", "issue")
    /\ ado_conn = "ok" /\ ado_project = "found" /\ gl_conn = "ok"
    /\ s_pc = "config" /\ exit_status = -1

SetupInit ==
    /\ cfg_file \in ConfigFiles
    /\ ado_conn \in {"ok", "fail"}
    /\ ado_project \in {"found", "not_found"}
    /\ gl_conn \in {"ok", "auth_fail", "project_not_found", "group_not_found"}
    /\ s_pc = "config" /\ exit_status = -1

\* sys.exit(1)
SysExit1 == s_pc' = "exited" /\ exit_status' = 1

\* lines 145-148
SetupLoadConfig ==
    /\ s_pc = "config"
    /\ IF load_migration_config(cfg_file) = "None"
       THEN SysExit1
       ELSE s_pc' = "ado_init" /\ UNCHANGED exit_status
    /\ UNCHANGED <<cfg_file, ado_conn, ado_project, gl_conn>>

\* lines 150-151
SetupInitAdo ==
    /\ s_pc = "ado_init"
    /\ IF ado_conn = "fail"
       THEN SysExit1
       ELSE s_pc' = "ado_project" /\ UNCHANGED exit_status
    /\ UNCHANGED <<cfg_file, ado_conn, ado_project, gl_conn>>

\* lines 153-158
SetupVerifyProject ==
    /\ s_pc = "ado_project"
    /\ IF ado_project = "not_found"
       THEN SysExit1
       ELSE s_pc' = "gitlab_init" /\ UNCHANGED exit_status
    /\ UNCHANGED <<cfg_file, ado_conn, ado_project, gl_conn>>

\* lines 160-163; init_gitlab_connection returns None, None, None on an
\* authentication error and on any other exception (gitlab_interaction.py 59-79)
SetupInitGitlab ==
    /\ s_pc = "gitlab_init"
    /\ IF gl_conn # "ok"
       THEN SysExit1
       ELSE s_pc' = "load_map" /\ UNCHANGED exit_status
    /\ UNCHANGED <<cfg_file, ado_conn, ado_project, gl_conn>>

\* lines 165-229: the map is loaded, the ids are queried, Phase 1 starts
SetupDone ==
    /\ s_pc = "load_map"
    /\ s_pc' = "phase1"
    /\ UNCHANGED <<cfg_file, ado_conn, ado_project, gl_conn, exit_status>>

SetupNext ==
    \/ SetupLoadConfig
    \/ SetupInitAdo
    \/ SetupVerifyProject
    \/ SetupInitGitlab
    \/ SetupDone

(* ---------------- migration footer: main() 287-301 ---------------- *)

\* fields.get(key, default) on the fields of a work item
get(fields, key, default) == IF key \in DOMAIN fields THEN fields[key] ELSE default

\* line 175: script_config.get('ado_priority_field_ref_name'); "" stands for None
PriorityRefs == {"Microsoft.VSTS.Common.Priority", ""}

\* line 289: the priority value, <<>> for None
ado_priority_val(fields, priority_ref) ==
    IF priority_ref # "" /\ priority_ref \in DOMAIN fields
    THEN <<fields[priority_ref]>>
    ELSE <<>>

\* variant: the tags are appended before the priority
migration_footer_tags_first(id, fields, priority_ref) ==
    LET priority == ado_priority_val(fields, priority_ref)
        tags == get(fields, "System.Tags", <<>>)
        head == <<"\n\n---\nMigrated from ADO #", ToString(id), " (", "Type: ">>
                  \o get(fields, "System.WorkItemType", <<"WorkItem">>)
                  \o <<", ", "State: ">> \o get(fields, "System.State", <<"Undefined">>)
        area == get(fields, "System.AreaPath", <<>>)
        iteration == get(fields, "System.IterationPath", <<>>)
        f1 == IF tags # <<>> THEN head \o <<", ", "Original ADO Tags: ">> \o tags ELSE head
        f2 == IF priority # <<>>
              THEN f1 \o <<", ", "Priority: ", ToString(priority[1])>> ELSE f1
        f3 == IF area # <<>> THEN f2 \o <<", ", "Original Area: ">> \o area ELSE f2
        f4 == IF iteration # <<>>
              THEN f3 \o <<", ", "Original Iteration: ">> \o iteration ELSE f3
    IN  f4 \o <<")">>

\* lines 287-300: the footer, appended to piece by piece
migration_footer(id, fields, priority_ref) ==
    LET ado_type == get(fields, "System.WorkItemType", <<"WorkItem">>)
        ado_state == get(fields, "System.State", <<"Undefined">>)
        priority == ado_priority_val(fields, priority_ref)
        ado_tags_string == get(fields, "System.Tags", <<>>)
        ado_area_path == get(fields, "System.AreaPath", <<>>)
        ado_iteration_path == get(fields, "System.IterationPath", <<>>)
        f0 == <<"\n\n---\nMigrated from ADO #", ToString(id), " (", "Type: ">> \o ado_type
                \o <<", ", "State: ">> \o ado_state
        f1 == IF priority # <<>>
              THEN f0 \o <<", ", "Priority: ", ToString(priority[1])>> ELSE f0
        f2 == IF ado_tags_string # <<>>
              THEN f1 \o <<", ", "Original ADO Tags: ">> \o ado_tags_string ELSE f1
        f3 == IF ado_area_path # <<>>
              THEN f2 \o <<", ", "Original Area: ">> \o ado_area_path ELSE f2
        f4 == IF ado_iteration_path # <<>>
              THEN f3 \o <<", ", "Original Iteration: ">> \o ado_iteration_path ELSE f3
    IN  f4 \o <<")">>

\* the field values of the model; a key of the item can be missing
FooterValues ==
    [System_WorkItemType : {<<"Bug">>, <<"Epic">>},
     System_State : {<<"Active">>},
     Priority : {0, 2},
     System_Tags : {<<>>, <<"urgent", ";", " ", "ui">>},
     System_AreaPath : {<<>>, <<"ProjectX", "\\", "TeamA">>},
     System_IterationPath : {<<>>, <<"Sprint1">>}]

FooterKeys ==
    {"System.WorkItemType", "System.State", "Microsoft.VSTS.Common.Priority", "System.Tags",
     "System.AreaPath", "System.IterationPath"}

FieldsOf(v, keys) ==
    [key \in keys |->
        CASE key = "System.WorkItemType" -> v.System_WorkItemType
          [] key = "System.State" -> v.System_State
          [] key = "Microsoft.VSTS.Common.Priority" -> v.Priority
          [] key = "System.Tags" -> v.System_Tags
          [] key = "System.AreaPath" -> v.System_AreaPath
          [] OTHER -> v.System_IterationPath]

FooterFields == {FieldsOf(v, keys) : v \in FooterValues, keys \in SUBSET FooterKeys}

VARIABLES
    f_id,           \* ado_work_item_id
    f_fields,       \* ado_work_item_details.fields
    f_priority_ref, \* ado_priority_field_ref
    footers         \* the footer each run built for the item, <<>> before it did

footer_vars == <<f_id, f_fields, f_priority_ref, footers>>

FooterIdle ==
    /\ f_id = 1 /\ f_fields = FieldsOf(CHOOSE v \in FooterValues : TRUE, {})
    /\ f_priority_ref = "" /\ footers = [r \in 1..MaxRuns |-> <<>>]

FooterInit ==
    /\ f_id \in Ids /\ f_fields \in FooterFields /\ f_priority_ref \in PriorityRefs
    /\ footers = [r \in 1..MaxRuns |-> <<>>]

\* a run reaches line 300 for the item
BuildFooter(r) ==
    /\ footers[r] = <<>>
    /\ \A q \in 1..(r - 1) : footers[q] # <<>>
    /\ footers' = [footers EXCEPT ![r] = migration_footer(f_id, f_fields, f_priority_ref)]
    /\ UNCHANGED <<f_id, f_fields, f_priority_ref>>

FooterNext == \E r \in 1..MaxRuns : BuildFooter(r)

(* ---------------- batch_create_gitlab_items: main_migrator.py 92-118 ---------------- *)

\* longest items_data list of the model
MaxBatch == 2

\* max_workers=3: the workers of the ThreadPoolExecutor
max_workers == 3
Workers == 1..max_workers

\* an entry of items_data (the payload is left out)
ItemData == [type : {"epic", "issue"}, ado_id : Ids]

RECURSIVE ListsUpTo(_, _)
ListsUpTo(elems, n) ==
    IF n = 0 THEN {<<>>}
    ELSE LET shorter == ListsUpTo(elems, n - 1)
         IN  shorter \cup {Append(list, e) : list \in shorter, e \in elems}

VARIABLES
    items_data,    \* the argument of the call
    b_mapped,      \* the source ids in the identity map when the call is made
    futures,       \* the future of every submitted entry: queued, running, done
    worker_task,   \* for every worker the index of the entry it runs, 0 when idle
    b_create_calls,  \* the create calls issued to GitLab, in order
    results,       \* the list the function builds
    b_pc           \* "submit", "collect", "returned"

batch_vars == <<items_data, b_mapped, futures, worker_task, b_create_calls, results, b_pc>>

BatchIdle ==
    /\ items_data = <<>> /\ b_mapped = {}
    /\ futures = <<>> /\ worker_task = [w \in Workers |-> 0]
    /\ b_create_calls = <<>> /\ results = <<>> /\ b_pc = "submit"

BatchInit ==
    /\ items_data \in ListsUpTo(ItemData, MaxBatch)
    /\ b_mapped \in SUBSET Ids
    /\ futures = <<>> /\ worker_task = [w \in Workers |-> 0]
    /\ b_create_calls = <<>> /\ results = <<>> /\ b_pc = "submit"

\* lines 96-107: executor.submit for the next entry, whatever its ado_id
Submit ==
    /\ b_pc = "submit"
    /\ IF Len(futures) < Len(items_data)
       THEN /\ futures' = Append(futures, [state |-> "queued", result |-> "none"])
            /\ UNCHANGED b_pc
       ELSE /\ b_pc' = "collect"
            /\ UNCHANGED futures
    /\ UNCHANGED <<items_data, b_mapped, worker_task, b_create_calls, results>>

\* an idle worker of the pool takes the oldest queued future
WorkerTakes(w) ==
    /\ worker_task[w] = 0
    /\ \E i \in 1..Len(futures) :
          /\ futures[i].state = "queued"
          /\ \A h \in 1..(i - 1) : futures[h].state # "queued"
          /\ futures' = [futures EXCEPT ![i].state = "running"]
          /\ worker_task' = [worker_task EXCEPT ![w] = i]
    /\ UNCHANGED <<items_data, b_mapped, b_create_calls, results, b_pc>>

\* the worker runs create_gitlab_epic / create_gitlab_issue: the create call is
\* issued and returns the item, the None sentinel, or raises
WorkerCreates(w, outcome) ==
    /\ worker_task[w] # 0
    /\ LET i == worker_task[w]
       IN  /\ b_create_calls' = Append(b_create_calls,
                                     [type |-> items_data[i].type,
                                      ado_id |-> items_data[i].ado_id, worker |-> w])
           /\ futures' = [futures EXCEPT ![i] = [state |-> "done", result |-> outcome]]
    /\ worker_task' = [worker_task EXCEPT ![w] = 0]
    /\ UNCHANGED <<items_data, b_mapped, results, b_pc>>

\* lines 110-116: future.result() of the next future, None for a raised one
CollectResult ==
    /\ b_pc = "collect"
    /\ Len(results) < Len(futures)
    /\ LET i == Len(results) + 1
       IN  /\ futures[i].state = "done"
           /\ results' = Append(results,
                                [ado_id |-> items_data[i].ado_id,
                                 result |-> IF futures[i].result = "created"
                                            THEN "item" ELSE "None"])
    /\ UNCHANGED <<items_data, b_mapped, futures, worker_task, b_create_calls, b_pc>>

\* line 118
ReturnResults ==
    /\ b_pc = "collect"
    /\ Len(results) = Len(futures)
    /\ b_pc' = "returned"
    /\ UNCHANGED <<items_data, b_mapped, futures, worker_task, b_create_calls, results>>

BatchNext ==
    \/ Submit
    \/ \E w \in Workers : WorkerTakes(w)
    \/ \E w \in Workers, outcome \in {"created", "none", "raise"} : WorkerCreates(w, outcome)
    \/ CollectResult
    \/ ReturnResults

(* ---------------- comments of one item: ado_client.py 137-216, main() 431-484 ---------------- *)

\* most comments the source holds for the item
MaxComments == 3

\* the comments of the REST response, in the order of the response: each has
\* its id and its createdDate, an ISO string (here its rank in time) or
\* nothing (0) when the key is missing
SourceComments ==
    {[i \in 1..Len(dates) |-> [id |-> i, createdDate |-> dates[i]]] :
        dates \in ListsUpTo(0..MaxComments, MaxComments)}

\* ado_client.py 189-191: the comment object; created_date is the value of the
\* JSON key as it is, a str, or None
CommentObj(comment) ==
    [id |-> comment.id,
     created_date |-> IF comment.createdDate = 0
                      THEN [type |-> "None", t |-> 0]
                      ELSE [type |-> "str", t |-> comment.createdDate]]

\* sorted(): the key of one element is compared with that of another; str and
\* None are not ordered, nor are None and None
sorted_raises(objects) ==
    Len(objects) >= 2 /\ \E i \in 1..Len(objects) : objects[i].created_date.type = "None"

\* sorted(comment_objects, key=lambda c: c.created_date): stable, ascending
RECURSIVE sorted_by_created_date(_)
sorted_by_created_date(objects) ==
    IF Len(objects) <= 1 THEN objects
    ELSE LET first == CHOOSE i \in 1..Len(objects) :
                         /\ \A h \in 1..Len(objects) :
                               objects[i].created_date.t <= objects[h].created_date.t
                         /\ \A h \in 1..(i - 1) :
                               objects[h].created_date.t # objects[i].created_date.t
             rest == [h \in 1..(Len(objects) - 1) |->
                         IF h < first THEN objects[h] ELSE objects[h + 1]]
         IN  <<objects[first]>> \o sorted_by_created_date(rest)

\* ado_client.py 137-216: the list get_ado_work_item_comments returns
get_ado_work_item_comments(source, response) ==
    LET objects == [i \in 1..Len(source) |-> CommentObj(source[i])]
    IN  IF response = "200" /\ source # <<>> /\ ~sorted_raises(objects)
        THEN sorted_by_created_date(objects)
        ELSE <<>>

\* System.CreatedDate of the item: an ISO string fromisoformat accepts, a
\* string it rejects, or no such field
ItemDates == {"iso", "unparsable", "absent"}

\* main() 461-468: what becomes of the timestamp of a comment
\*   "datetime"        ts_dt is a datetime: the note is built
\*   "none"            no timestamp at hand: warning of line 479, no note
\*   "AttributeError"  ts_dt is a str: ts_dt.tzinfo raises, caught at 481
\*   "ValueError"      fromisoformat raises on the fallback, caught at 481
timestamp_of(comment, item_created_date) ==
    IF comment.created_date.type = "None"
    THEN CASE item_created_date = "iso" -> "datetime"
           [] item_created_date = "unparsable" -> "ValueError"
           [] OTHER -> "none"
    ELSE "AttributeError"

VARIABLES
    c_source,        \* the comments the source holds for the item
    c_item_date,     \* System.CreatedDate of the item
    c_list,          \* ado_comments_list
    c_idx,           \* position of the loop of line 439
    note_calls,      \* the notes.create calls issued on the target item, in order
    c_pc             \* "fetch", "loop", "done"

comment_vars == <<c_source, c_item_date, c_list, c_idx, note_calls, c_pc>>

CommentIdle ==
    /\ c_source = <<>> /\ c_item_date = "iso"
    /\ c_list = <<>> /\ c_idx = 1 /\ note_calls = <<>> /\ c_pc = "fetch"

CommentInit ==
    /\ c_source \in SourceComments /\ c_item_date \in ItemDates
    /\ c_list = <<>> /\ c_idx = 1 /\ note_calls = <<>> /\ c_pc = "fetch"

\* lines 432-437, comment migration on and the target item at hand
GetAdoComments(response) ==
    /\ c_pc = "fetch"
    /\ c_list' = get_ado_work_item_comments(c_source, response)
    /\ c_pc' = IF c_list' # <<>> THEN "loop" ELSE "done"
    /\ UNCHANGED <<c_source, c_item_date, c_idx, note_calls>>

\* lines 439-482: one pass of the comment loop; add_gitlab_note issues the
\* notes.create call through call_with_retry when the pass reaches line 477
MigrateComment(outcome) ==
    /\ c_pc = "loop"
    /\ LET ado_comment == c_list[c_idx]
           ts == timestamp_of(ado_comment, c_item_date)
       IN  IF ts = "datetime"
           THEN note_calls' = Append(note_calls,
                                     [comment |-> ado_comment.id,
                                      created_date |-> ado_comment.created_date,
                                      result |-> outcome])
           ELSE outcome = "created" /\ UNCHANGED note_calls
    /\ c_idx' = c_idx + 1
    /\ c_pc' = IF c_idx = Len(c_list) THEN "done" ELSE "loop"
    /\ UNCHANGED <<c_source, c_item_date, c_list>>

CommentNext ==
    \/ \E response \in {"200", "error"} : GetAdoComments(response)
    \/ \E outcome \in {"created", "none", "raise"} : MigrateComment(outcome)

(* ---------------- DatabaseHandler: ado_migration/db_handler.py, db_models.py ---------------- *)

\* most rows of a table, and most migrations started on the database
MaxRows == 2

\* the (gitlab_id, gitlab_type) pairs the calls record
GitlabTargets == {<<41, "issue">>, <<42, "epic">>}
RelationshipStatuses == {"success", "failed"}
Limits == {1, 100}

\* what the last method call did; kind is "returned" or "raised"
NoDbCall == [op |-> "none", arg |-> 0, kind |-> "returned", value |-> <<>>]
DbCall(op, arg, kind, value) == [op |-> op, arg |-> arg, kind |-> kind, value |-> value]

\* Query.one(): the rows the filter finds
one_raises(rows) ==
    CASE Cardinality(rows) = 0 -> "NoResultFound"
      [] Cardinality(rows) = 1 -> "none"
      [] OTHER -> "MultipleResultsFound"

\* variant: processed is not part of the filter
is_pending_any(row, migration) == row.migration_state_id = migration

\* line 104: filter_by(migration_state_id=self.current_migration.id, processed=False)
is_pending(row, migration) == row.migration_state_id = migration /\ ~row.processed

VARIABLES
    migration_state,        \* number of rows of the table migration_state (ids 1..n)
    migration_rows,         \* the rows of the table migration_state, by id
    current_migration,      \* self.current_migration: its id, 0 for None
    work_item_mappings,     \* rows of the table, the primary key is the position
    relationship_mappings,  \* rows of the table, the primary key is the position
    db_last                 \* the last call of a method and what it returned or raised

db_vars == <<migration_state, migration_rows, current_migration, work_item_mappings, relationship_mappings,
             db_last>>

DbIdle ==
    /\ migration_state = 0 /\ migration_rows = <<>> /\ current_migration = 0
    /\ work_item_mappings = <<>> /\ relationship_mappings = <<>>
    /\ db_last = NoDbCall

\* __init__ on a new database: empty tables, no current migration
DbInit == DbIdle

\* db_models.py 8-17: a new row has no end_time, status 'in_progress' and
\* counters 0
MigrationState(total_items) ==
    [end_time |-> "None", status |-> "in_progress", total_items |-> total_items,
     processed_items |-> 0, failed_items |-> 0]

\* lines 13-19
StartMigration ==
    /\ migration_state < MaxRuns
    /\ migration_state' = migration_state + 1
    /\ migration_rows' = Append(migration_rows, MigrationState(0))
    /\ current_migration' = migration_state + 1
    /\ db_last' = DbCall("start_migration", 0, "returned", <<migration_state + 1>>)
    /\ UNCHANGED <<work_item_mappings, relationship_mappings>>

\* lines 57-73: a row is added, whatever rows the table holds for ado_id
AddWorkItemMapping(ado_id, gitlab_id, gitlab_type) ==
    /\ Len(work_item_mappings) < MaxRows
    /\ IF current_migration = 0
       THEN /\ db_last' = DbCall("add_work_item_mapping", ado_id, "returned", <<FALSE>>)
            /\ UNCHANGED work_item_mappings
       ELSE /\ work_item_mappings' =
                  Append(work_item_mappings,
                         [ado_id |-> ado_id, gitlab_id |-> gitlab_id,
                          gitlab_type |-> gitlab_type,
                          migration_state_id |-> current_migration])
            /\ db_last' = DbCall("add_work_item_mapping", ado_id, "returned",
                                 <<Len(work_item_mappings) + 1>>)
    /\ UNCHANGED <<migration_state, migration_rows, current_migration, relationship_mappings>>

\* lines 75-81: filter_by(ado_id=ado_id).one(); only NoResultFound is caught
GetGitlabIdFromAdoId(ado_id) ==
    /\ LET found == {i \in 1..Len(work_item_mappings) :
                        work_item_mappings[i].ado_id = ado_id}
           exc == one_raises(found)
       IN  db_last' =
              CASE exc = "none" ->
                     LET mapping == work_item_mappings[CHOOSE i \in found : TRUE]
                     IN  DbCall("get_gitlab_id_from_ado_id", ado_id, "returned",
                                <<mapping.gitlab_id, mapping.gitlab_type>>)
                [] exc = "NoResultFound" ->
                     DbCall("get_gitlab_id_from_ado_id", ado_id, "returned",
                            <<"None", "None">>)
                [] OTHER ->
                     DbCall("get_gitlab_id_from_ado_id", ado_id, "raised", <<exc>>)
    /\ UNCHANGED <<migration_state, migration_rows, current_migration, work_item_mappings,
                   relationship_mappings>>

\* lines 83-96
AddRelationship(source, target) ==
    /\ Len(relationship_mappings) < MaxRows
    /\ IF current_migration = 0
       THEN /\ db_last' = DbCall("add_relationship", source, "returned", <<FALSE>>)
            /\ UNCHANGED relationship_mappings
       ELSE /\ relationship_mappings' =
                  Append(relationship_mappings,
                         [source_ado_id |-> source, target_ado_id |-> target,
                          migration_state_id |-> current_migration,
                          processed |-> FALSE, status |-> "None"])
            /\ db_last' = DbCall("add_relationship", source, "returned",
                                 <<Len(relationship_mappings) + 1>>)
    /\ UNCHANGED <<migration_state, migration_rows, current_migration, work_item_mappings>>

\* lines 98-105: the ids of the rows returned; without ORDER BY the database
\* picks the rows when the filter finds more than limit
GetPendingRelationships(limit) ==
    /\ LET pending == {i \in 1..Len(relationship_mappings) :
                          is_pending(relationship_mappings[i], current_migration)}
       IN  IF current_migration = 0
           THEN db_last' = DbCall("get_pending_relationships", limit, "returned", <<{}>>)
           ELSE \E rows \in SUBSET pending :
                   /\ Cardinality(rows) = IF Cardinality(pending) <= limit
                                          THEN Cardinality(pending) ELSE limit
                   /\ db_last' = DbCall("get_pending_relationships", limit, "returned",
                                        <<rows>>)
    /\ UNCHANGED <<migration_state, migration_rows, current_migration, work_item_mappings,
                   relationship_mappings>>

\* lines 107-117
UpdateRelationshipStatus(relationship_id, status) ==
    /\ IF relationship_id \in 1..Len(relationship_mappings)
       THEN /\ relationship_mappings' =
                  [relationship_mappings EXCEPT ![relationship_id].processed = TRUE,
                                                ![relationship_id].status = status]
            /\ db_last' = DbCall("update_relationship_status", relationship_id, "returned",
                                 <<TRUE, status>>)
       ELSE /\ db_last' = DbCall("update_relationship_status", relationship_id, "returned",
                                 <<FALSE, status>>)
            /\ UNCHANGED relationship_mappings
    /\ UNCHANGED <<migration_state, migration_rows, current_migration, work_item_mappings>>

\* the calls that read and write the table work_item_mappings
DbMappingsInit == DbInit

DbMappingsNext ==
    \/ StartMigration
    \/ \E a \in Ids, g \in GitlabTargets : AddWorkItemMapping(a, g[1], g[2])
    \/ \E a \in Ids : GetGitlabIdFromAdoId(a)

\* the calls that read and write the table relationship_mappings
DbRelationshipsInit == DbInit

DbRelationshipsNext ==
    \/ StartMigration
    \/ \E a \in Ids : \E b \in Ids \ {a} : AddRelationship(a, b)
    \/ \E limit \in Limits : GetPendingRelationships(limit)
    \/ \E id \in 1..(MaxRows + 1), status \in RelationshipStatuses :
          UpdateRelationshipStatus(id, status)

\* the arguments of the model: a status, and for a counter <<>> (None) or a
\* number
MigrationStatuses == {"in_progress", "completed", "failed"}
Counts == {<<>>, <<2>>}

\* assignment under 'if x is not None'
unless_none(new, old) == IF new = <<>> THEN old ELSE new[1]

\* lines 21-38: end_time is assigned when the status is 'completed' or
\* 'failed' and is left as it is otherwise
UpdateMigrationStatus(status, processed, failed) ==
    /\ IF current_migration = 0
       THEN /\ db_last' = DbCall("update_migration_status", 0, "returned", <<FALSE, status>>)
            /\ UNCHANGED migration_rows
       ELSE /\ migration_rows' =
                  [migration_rows EXCEPT
                     ![current_migration] =
                        [@ EXCEPT !.end_time = IF status \in {"completed", "failed"}
                                               THEN "utcnow" ELSE @,
                                  !.status = status,
                                  !.processed_items = unless_none(processed, @),
                                  !.failed_items = unless_none(failed, @)]]
            /\ db_last' = DbCall("update_migration_status", 0, "returned", <<TRUE, status>>)
    /\ UNCHANGED <<migration_state, current_migration, work_item_mappings,
                   relationship_mappings>>

\* lines 40-55: the counters given are assigned, nothing else
UpdateMigrationProgress(processed_items, failed_items, total_items) ==
    /\ IF current_migration = 0
       THEN /\ db_last' = DbCall("update_migration_progress", 0, "returned", <<FALSE>>)
            /\ UNCHANGED migration_rows
       ELSE /\ migration_rows' =
                  [migration_rows EXCEPT
                     ![current_migration] =
                        [@ EXCEPT !.processed_items = unless_none(processed_items, @),
                                  !.failed_items = unless_none(failed_items, @),
                                  !.total_items = unless_none(total_items, @)]]
            /\ db_last' = DbCall("update_migration_progress", 0, "returned", <<TRUE>>)
    /\ UNCHANGED <<migration_state, current_migration, work_item_mappings,
                   relationship_mappings>>

\* the calls that write the table migration_state
DbMigrationInit == DbInit

DbMigrationNext ==
    \/ StartMigration
    \/ \E status \in MigrationStatuses, processed \in Counts, failed \in Counts :
          UpdateMigrationStatus(status, processed, failed)
    \/ \E processed_items \in Counts, failed_items \in Counts, total_items \in Counts :
          UpdateMigrationProgress(processed_items, failed_items, total_items)

(* ---------------- one relation of Phase 2: main() 552-582 ---------------- *)

LinkRefNames == {"System.LinkTypes.Hierarchy-Forward", "System.LinkTypes.Hierarchy-Reverse",
                 "System.LinkTypes.Related", "System.LinkTypes.Duplicate-Forward"}

LinkMarkers == {"_parent_of_current_", "_child_of_current_"}

\* the values of ado_to_gitlab_link_type_mapping and of default_gitlab_link_type;
\* "None" is a YAML null or a missing default_gitlab_link_type
LinkTypeValues == {"None", "relates_to", "blocks", "_parent_of_current_"}

\* the tables script_config['ado_to_gitlab_link_type_mapping'] of the model
\* (an absent table is the empty one, by the {} of .get)
LinkTables ==
    UNION {[keys -> LinkTypeValues] :
              keys \in SUBSET {"System.LinkTypes.Hierarchy-Forward", "System.LinkTypes.Related"}}

\* the type an entry of ado_id_to_gitlab holds is gitlab_target_type_str (line 421)
MappedTypes == {"epic", "issue", "task"}

GitlabInfo(type, id) == [type |-> type, id |-> id, gitlab_global_id |-> 100 + id]

\* dict.get(key): the value, None when the key is missing
table_get(table, key) == IF key \in DOMAIN table THEN table[key] ELSE "None"

\* lines 572-573: table.get(ado_link_ref_name) or default_gitlab_link_type
resolved_link_type(table, default, ado_link_ref_name) ==
    IF table_get(table, ado_link_ref_name) # "None"
    THEN table_get(table, ado_link_ref_name)
    ELSE default

\* lines 558-569: the calls of the hierarchical branch
hierarchical_calls(parent_gl, child_gl) ==
    IF parent_gl.type = "epic" /\ child_gl.type = "issue"
    THEN <<EpicIssueCall(parent_gl.id, child_gl.gitlab_global_id)>>
    ELSE IF parent_gl.type = "issue" /\ child_gl.type = "issue"
    THEN <<IssueLinkCall(parent_gl.id, child_gl.id, "relates_to")>>
    ELSE <<>>

\* variant: the markers are link types like any other
is_link_type_with_markers(t) == t # "None"

\* line 574: mapped_gl_link_type and mapped_gl_link_type not in [markers]
is_link_type(t) == t # "None" /\ t \notin LinkMarkers

\* lines 572-582: the calls of the generic branch
generic_calls(source_gitlab_info, target_gitlab_info, link_type) ==
    IF is_link_type(link_type)
       /\ source_gitlab_info.type = "issue" /\ target_gitlab_info.type = "issue"
    THEN <<IssueLinkCall(source_gitlab_info.id, target_gitlab_info.id, link_type)>>
    ELSE <<>>

\* variant: the hierarchical branch has no continue
relation_calls_through(source_gitlab_info, target_gitlab_info, ado_link_ref_name, table, default) ==
    LET forward == ado_link_ref_name = "System.LinkTypes.Hierarchy-Forward"
        reverse == ado_link_ref_name = "System.LinkTypes.Hierarchy-Reverse"
        parent_gl == IF forward THEN target_gitlab_info ELSE source_gitlab_info
        child_gl == IF forward THEN source_gitlab_info ELSE target_gitlab_info
        generic == generic_calls(source_gitlab_info, target_gitlab_info,
                                 resolved_link_type(table, default, ado_link_ref_name))
    IN  IF forward \/ reverse
        THEN hierarchical_calls(parent_gl, child_gl) \o generic
        ELSE generic

\* lines 552-582: the link calls one relation between two mapped items leads to
relation_calls(source_gitlab_info, target_gitlab_info, ado_link_ref_name, table, default) ==
    LET forward == ado_link_ref_name = "System.LinkTypes.Hierarchy-Forward"
        reverse == ado_link_ref_name = "System.LinkTypes.Hierarchy-Reverse"
        parent_gl == IF forward THEN target_gitlab_info ELSE source_gitlab_info
        child_gl == IF forward THEN source_gitlab_info ELSE target_gitlab_info
    IN  IF forward \/ reverse
        THEN hierarchical_calls(parent_gl, child_gl)
        ELSE generic_calls(source_gitlab_info, target_gitlab_info,
                           resolved_link_type(table, default, ado_link_ref_name))

VARIABLES
    link_type_mapping,          \* script_config['ado_to_gitlab_link_type_mapping']
    default_gitlab_link_type,   \* script_config.get('default_gitlab_link_type')
    source_gitlab_info,         \* ado_id_to_gitlab[source_ado_id]
    target_gitlab_info,         \* ado_id_to_gitlab[target_ado_id]
    ado_link_ref_name,          \* rel.rel of the relation processed, "None" before
    link_calls                  \* the calls of link_gitlab_epic_issue and link_gitlab_issues

link_vars == <<link_type_mapping, default_gitlab_link_type, source_gitlab_info,
               target_gitlab_info, ado_link_ref_name, link_calls>>

LinkIdle ==
    /\ link_type_mapping = <<>> /\ default_gitlab_link_type = "None"
    /\ source_gitlab_info = GitlabInfo("issue", 11)
    /\ target_gitlab_info = GitlabInfo("issue", 12)
    /\ ado_link_ref_name = "None" /\ link_calls = <<>>

\* a relation of a mapped source item whose target is mapped, under every
\* configuration of the link types
LinkInit ==
    /\ link_type_mapping \in LinkTables
    /\ default_gitlab_link_type \in {"None", "relates_to"}
    /\ \E t \in MappedTypes : source_gitlab_info = GitlabInfo(t, 11)
    /\ \E t \in MappedTypes : target_gitlab_info = GitlabInfo(t, 12)
    /\ ado_link_ref_name = "None" /\ link_calls = <<>>

\* lines 552-582, one pass of the loop over the relations
LinkRelation(rel) ==
    /\ ado_link_ref_name = "None"
    /\ ado_link_ref_name' = rel
    /\ link_calls' = relation_calls(source_gitlab_info, target_gitlab_info, rel,
                                    link_type_mapping, default_gitlab_link_type)
    /\ UNCHANGED <<link_type_mapping, default_gitlab_link_type, source_gitlab_info,
                   target_gitlab_info>>

LinkNext == \E rel \in LinkRefNames : LinkRelation(rel)

(* ---------------- creation of one item: main() 304, 366-425 ---------------- *)

\* the values of ado_to_gitlab_type and of default_gitlab_type in the YAML
\* file: load_migration_config returns what yaml.safe_load gives, any string
\* or null ("None")
TypeValues == {"epic", "issue", "task", "None"}

AdoTypes == {"Epic", "Bug", "Task"}

\* the tables script_config['ado_to_gitlab_type'] of the model
TypeTables == UNION {[keys -> TypeValues] : keys \in SUBSET {"Epic", "Bug"}}

\* script_config: "absent" is a default_gitlab_type key that is not there
ScriptConfigs ==
    [ado_to_gitlab_type : TypeTables,
     default_gitlab_type : {"absent", "epic", "task"},
     migrate_iteration_paths_to_milestones : BOOLEAN]

\* line 304: .get('ado_to_gitlab_type', {}).get(ado_type, .get('default_gitlab_type', 'issue'))
target_type_of(script_config, ado_type) ==
    IF ado_type \in DOMAIN script_config.ado_to_gitlab_type
    THEN script_config.ado_to_gitlab_type[ado_type]
    ELSE IF script_config.default_gitlab_type = "absent" THEN "issue"
    ELSE script_config.default_gitlab_type

\* lines 409-415: the helper the payload goes to
create_helper(target_type) ==
    IF target_type = "epic" THEN "create_gitlab_epic" ELSE "create_gitlab_issue"

NoCreateCall == [helper |-> "none", payload |-> [milestone_id |-> 0]]
NoMapping == [type |-> "unset", id |-> 0, gitlab_global_id |-> 0]

\* variant: the target type is not looked at
close_wanted_any_type(target_type, action_close) == action_close

\* line 418: if gitlab_target_type_str == "issue" and action_close_issue
close_wanted(target_type, action_close) == target_type = "issue" /\ action_close

VARIABLES
    cr_config,          \* script_config
    cr_ado_type,        \* System.WorkItemType of the item
    cr_iteration,       \* the item has a System.IterationPath
    cr_close_action,    \* the state mapping of the item's state has action '_close_issue_'
    cr_target_type,     \* gitlab_target_type_str, "unset" before line 304
    cr_payload,         \* item_payload: milestone_id, 0 when the key is not there
    cr_call,            \* the create helper called and the payload passed
    cr_created,         \* created_gl_item is an item
    cr_close,           \* what close_gitlab_issue returned, "none" when not called
    cr_mapping,         \* ado_id_to_gitlab[ado_work_item_id], NoMapping when not there
    cr_pc

create_vars == <<cr_config, cr_ado_type, cr_iteration, cr_close_action, cr_target_type,
                 cr_payload, cr_call, cr_created, cr_close, cr_mapping, cr_pc>>

CreateIdle ==
    /\ cr_config = [ado_to_gitlab_type |-> <<>>, default_gitlab_type |-> "absent",
                    migrate_iteration_paths_to_milestones |-> FALSE]
    /\ cr_ado_type = "Bug" /\ cr_iteration = FALSE /\ cr_close_action = FALSE
    /\ cr_target_type = "unset" /\ cr_payload = [milestone_id |-> 0]
    /\ cr_call = NoCreateCall /\ cr_created = FALSE /\ cr_close = "none"
    /\ cr_mapping = NoMapping /\ cr_pc = "item"

\* one item, in the map or not, under every configuration
\* load_migration_config returns
CreateInit ==
    /\ cr_config \in ScriptConfigs
    /\ cr_ado_type \in AdoTypes /\ cr_iteration \in BOOLEAN /\ cr_close_action \in BOOLEAN
    /\ cr_target_type = "unset" /\ cr_payload = [milestone_id |-> 0]
    /\ cr_call = NoCreateCall /\ cr_created = FALSE /\ cr_close = "none"
    /\ cr_mapping \in {NoMapping, [type |-> "issue", id |-> 5, gitlab_global_id |-> 105]}
    /\ cr_pc = "item"

\* lines 243-262: an item of the map goes on to its comments, another one is translated
TakeItem ==
    /\ cr_pc = "item"
    /\ cr_pc' = IF cr_mapping # NoMapping THEN "comments" ELSE "type"
    /\ UNCHANGED <<cr_config, cr_ado_type, cr_iteration, cr_close_action, cr_target_type,
                   cr_payload, cr_call, cr_created, cr_close, cr_mapping>>

\* line 304
ResolveTargetType ==
    /\ cr_pc = "type"
    /\ cr_target_type' = target_type_of(cr_config, cr_ado_type)
    /\ cr_pc' = "payload"
    /\ UNCHANGED <<cr_config, cr_ado_type, cr_iteration, cr_close_action, cr_payload, cr_call,
                   cr_created, cr_close, cr_mapping>>

\* lines 366-407: item_payload; with the option set and an iteration path the
\* milestone is looked up or created and, when there is one, its id is put
\* under 'milestone_id', whatever the target type
BuildPayload(milestone) ==
    /\ cr_pc = "payload"
    /\ IF cr_config.migrate_iteration_paths_to_milestones /\ cr_iteration
       THEN cr_payload' = [milestone_id |-> IF milestone = "milestone" THEN 7 ELSE 0]
       ELSE milestone = "None" /\ cr_payload' = [milestone_id |-> 0]
    /\ cr_pc' = "create"
    /\ UNCHANGED <<cr_config, cr_ado_type, cr_iteration, cr_close_action, cr_target_type,
                   cr_call, cr_created, cr_close, cr_mapping>>

\* lines 409-418, 423-425: the helper is called with item_payload; without an
\* item the loop continues, with one the issue is closed first when line 418 asks
CallCreateHelper(outcome) ==
    /\ cr_pc = "create"
    /\ cr_call' = [helper |-> create_helper(cr_target_type), payload |-> cr_payload]
    /\ cr_created' = (outcome = "created")
    /\ cr_pc' = IF outcome # "created" THEN "abandoned"
                ELSE IF close_wanted(cr_target_type, cr_close_action) THEN "close"
                ELSE "put"
    /\ UNCHANGED <<cr_config, cr_ado_type, cr_iteration, cr_close_action, cr_target_type,
                   cr_payload, cr_close, cr_mapping>>

\* line 419: close_gitlab_issue returns True or False, its result is not used
CloseCreatedIssue(result) ==
    /\ cr_pc = "close"
    /\ cr_close' = result
    /\ cr_pc' = "put"
    /\ UNCHANGED <<cr_config, cr_ado_type, cr_iteration, cr_close_action, cr_target_type,
                   cr_payload, cr_call, cr_created, cr_mapping>>

\* lines 420-422: the item is recorded under gitlab_target_type_str
RecordMapping ==
    /\ cr_pc = "put"
    /\ cr_mapping' = [type |-> cr_target_type, id |-> 11, gitlab_global_id |-> 111]
    /\ cr_pc' = "comments"
    /\ UNCHANGED <<cr_config, cr_ado_type, cr_iteration, cr_close_action, cr_target_type,
                   cr_payload, cr_call, cr_created, cr_close>>

CreateNext ==
    \/ TakeItem
    \/ ResolveTargetType
    \/ \E milestone \in {"milestone", "None"} : BuildPayload(milestone)
    \/ \E outcome \in {"created", "none"} : CallCreateHelper(outcome)
    \/ \E result \in {"True", "False"} : CloseCreatedIssue(result)
    \/ RecordMapping

(* ---------------- get_or_create_gitlab_milestone: gitlab_interaction.py 233-304 ---------------- *)

\* the milestones of the container a search for "Sprint1" can return: the one
\* of that title and two whose titles only contain it
Milestone(id, title) == [id |-> id, title |-> title]
SearchHits ==
    {Milestone(7, <<"Sprint1">>), Milestone(8, <<"Sprint1", "0">>),
     Milestone(9, <<"Old", " ", "Sprint1">>)}

NoMilestone == Milestone(0, <<"None">>)

\* what call_with_retry on milestones.list gives: a list, or an exception
ListResults == [kind : {"list"}, items : SUBSET SearchHits] \cup {[kind |-> "raised", items |-> {}]}

\* variant: a title that contains the requested one is taken
title_matches_substring(m, title) == Contains(m.title, title)

\* lines 264 and 296: if m.title == title
title_matches(m, title) == m.title = title

\* lines 263-266, 295-296: for m in existing_milestones: if m.title == title: return m
scan(existing_milestones, title) ==
    IF \E m \in existing_milestones : title_matches(m, title)
    THEN CHOOSE m \in existing_milestones : title_matches(m, title)
    ELSE NoMilestone

\* lines 272-288: strptime(date, "%Y-%m-%d") decides whether the date is put
date_in_payload(date_str) == IF date_str = "2024-01-31" THEN date_str ELSE "absent"

MilestoneDates == {"None", "2024-01-31", "31/01/2024"}

VARIABLES
    ms_container,   \* class of gitlab_project_or_group: "Project", "Group", "other"
    ms_title,       \* the requested title
    ms_start,       \* start_date_str
    ms_due,         \* due_date_str
    ms_calls,       \* the calls made through call_with_retry and their results, in order
    ms_returned,    \* the value returned, NoMilestone for None
    ms_pc           \* "list", "create", "relist", "returned"

milestone_vars == <<ms_container, ms_title, ms_start, ms_due, ms_calls, ms_returned, ms_pc>>

MilestoneIdle ==
    /\ ms_container = "Project" /\ ms_title = <<"Sprint1">>
    /\ ms_start = "None" /\ ms_due = "None"
    /\ ms_calls = <<>> /\ ms_returned = NoMilestone /\ ms_pc = "list"

\* one call of the function, on every argument of the model
MilestoneInit ==
    /\ ms_container \in {"Project", "Group", "other"}
    /\ ms_title \in {<<>>, <<"Sprint1">>}
    /\ ms_start \in MilestoneDates /\ ms_due \in MilestoneDates
    /\ ms_calls = <<>> /\ ms_returned = NoMilestone /\ ms_pc = "list"

\* lines 240-256: an empty title or a container that is neither gives None
MilestoneRejected ==
    /\ ms_pc = "list"
    /\ ms_title = <<>> \/ ms_container = "other"
    /\ ms_returned' = NoMilestone
    /\ ms_pc' = "returned"
    /\ UNCHANGED <<ms_container, ms_title, ms_start, ms_due, ms_calls>>

\* lines 258-268: the list call and the scan; an exception is logged and the
\* function goes on to create
ListMilestones(result) ==
    /\ ms_pc = "list"
    /\ ms_title # <<>> /\ ms_container # "other"
    /\ ms_calls' = Append(ms_calls, [call |-> "list", search |-> ms_title,
                                     start_date |-> "absent", due_date |-> "absent",
                                     answer |-> result])
    /\ IF result.kind = "list" /\ scan(result.items, ms_title) # NoMilestone
       THEN ms_returned' = scan(result.items, ms_title) /\ ms_pc' = "returned"
       ELSE ms_pc' = "create" /\ UNCHANGED ms_returned
    /\ UNCHANGED <<ms_container, ms_title, ms_start, ms_due>>

\* lines 270-292, 299-304: the payload and the create call; the milestone
\* created is returned, an exception gives None, the None of a duplicate
\* leads to the second list call
CreateMilestone(result) ==
    /\ ms_pc = "create"
    /\ ms_calls' = Append(ms_calls, [call |-> "create", search |-> ms_title,
                                     start_date |-> date_in_payload(ms_start),
                                     due_date |-> date_in_payload(ms_due),
                                     answer |-> [kind |-> result, items |-> {}]])
    /\ IF result = "created"
       THEN ms_returned' = Milestone(10, ms_title) /\ ms_pc' = "returned"
       ELSE IF result = "raised"
       THEN ms_returned' = NoMilestone /\ ms_pc' = "returned"
       ELSE ms_pc' = "relist" /\ UNCHANGED ms_returned
    /\ UNCHANGED <<ms_container, ms_title, ms_start, ms_due>>

\* lines 293-298, 302-304: the second list call and scan
RelistMilestones(result) ==
    /\ ms_pc = "relist"
    /\ ms_calls' = Append(ms_calls, [call |-> "list", search |-> ms_title,
                                     start_date |-> "absent", due_date |-> "absent",
                                     answer |-> result])
    /\ ms_returned' = IF result.kind = "list" THEN scan(result.items, ms_title)
                      ELSE NoMilestone
    /\ ms_pc' = "returned"
    /\ UNCHANGED <<ms_container, ms_title, ms_start, ms_due>>

MilestoneNext ==
    \/ MilestoneRejected
    \/ \E result \in ListResults : ListMilestones(result)
    \/ \E result \in {"created", "duplicate", "raised"} : CreateMilestone(result)
    \/ \E result \in ListResults : RelistMilestones(result)

(* ---------------- the specifications ---------------- *)

vars == <<engine_vars, retry_vars, store_vars, area_vars, translate_vars, setup_vars,
          footer_vars, batch_vars, comment_vars, db_vars, link_vars, create_vars, milestone_vars>>

\* the steps of main() once it has started
StepsOfRun ==
    \/ \E outcome \in {"ok", "raise"} : FetchExisting(outcome)
    \/ \E outcome \in {"ok", "raise"}, calls \in SUBSET {"label_create", "milestone_create"} :
          Translate(outcome, calls)
    \/ \E outcome \in {"created", "none", "raise"} : CreateItem(outcome)
    \/ \E outcome \in {"ok", "fetch_fail", "save_fail"} : CloseIssue(outcome)
    \/ \E outcome \in SaveOutcomes : PutMapping(outcome)
    \/ \E outcome \in {"ok", "fail"} : FetchComments(outcome)
    \/ \E outcome \in {"ok", "raise", "skip"} : AddNote(outcome)
    \/ CommentsDone
    \/ Phase1Done
    \/ FetchRelations
    \/ NextLinkItem
    \/ \E outcome \in {"skipped", "fetch_fail", "link_fail", "duplicate", "linked"} :
          ProcessRelation(outcome)
    \/ RelationsDone
    \/ Finish

\* the invocations of main() and the kills of the process
EngineNext ==
    \/ StartRun
    \/ StepsOfRun
    \/ Kill
    \/ KillDuringSave

\* the parts of the model a specification does not run stay as they start
EngineIdle == EngineInit /\ migrate_comments = TRUE
OthersIdle == StoreIdle /\ AreaIdle /\ TranslateIdle /\ SetupIdle /\ FooterIdle /\ BatchIdle /\
    CommentIdle /\ DbIdle /\ LinkIdle /\ CreateIdle /\ MilestoneIdle
others_vars == <<store_vars, area_vars, translate_vars, setup_vars, footer_vars, batch_vars,
    comment_vars, db_vars, link_vars, create_vars, milestone_vars>>

\* the engine; no call_with_retry call is looked into
Init == EngineInit /\ RetryInit /\ OthersIdle

Next == EngineNext /\ UNCHANGED <<retry_vars, others_vars>>

Spec == Init /\ [][Next]_vars

\* call_with_retry and the link helpers; the engine does not run
InitRetry == RetryInit /\ EngineInit /\ migrate_comments = TRUE /\ OthersIdle

NextRetry == RetryNext /\ UNCHANGED <<engine_vars, others_vars>>

SpecRetry == InitRetry /\ [][NextRetry]_vars

\* every invocation of the operation returns or raises, and the interpreter
\* goes on: a started step is eventually taken
LiveSpecRetry == SpecRetry /\ WF_vars(NextRetry)

\* the engine when nothing kills the process: every remote call returns or
\* raises and main() goes on, so a step that can be taken is taken
NextRun ==
    /\ StartRun \/ StepsOfRun
    /\ UNCHANGED <<retry_vars, others_vars>>

LiveSpecRun == Init /\ [][NextRun]_vars /\ WF_vars(NextRun)

\* load_mapping on every file the process can find
InitStore ==
    StoreInit /\ EngineIdle /\ RetryInit /\ AreaIdle /\ TranslateIdle /\ SetupIdle /\
      FooterIdle /\ BatchIdle /\ CommentIdle /\ DbIdle /\ LinkIdle /\ CreateIdle /\
      MilestoneIdle

NextStore ==
    StoreNext /\ UNCHANGED <<engine_vars, retry_vars, area_vars, translate_vars, setup_vars,
        footer_vars, batch_vars, comment_vars, db_vars, link_vars, create_vars, milestone_vars>>

SpecStore == InitStore /\ [][NextStore]_vars

\* the area-path block on every path and strategy of the model
InitArea ==
    AreaInit /\ EngineIdle /\ RetryInit /\ StoreIdle /\ TranslateIdle /\ SetupIdle /\
      FooterIdle /\ BatchIdle /\ CommentIdle /\ DbIdle /\ LinkIdle /\ CreateIdle /\
      MilestoneIdle

NextArea ==
    AreaNext /\ UNCHANGED <<engine_vars, retry_vars, store_vars, translate_vars, setup_vars,
        footer_vars, batch_vars, comment_vars, db_vars, link_vars, create_vars, milestone_vars>>

SpecArea == InitArea /\ [][NextArea]_vars

\* the translation and creation of one item, for every item of the model
InitTranslate ==
    TranslateInit /\ EngineIdle /\ RetryInit /\ StoreIdle /\ AreaIdle /\ SetupIdle /\
      FooterIdle /\ BatchIdle /\ CommentIdle /\ DbIdle /\ LinkIdle /\ CreateIdle /\
      MilestoneIdle

NextTranslate ==
    TranslateNext /\ UNCHANGED <<engine_vars, retry_vars, store_vars, area_vars, setup_vars,
        footer_vars, batch_vars, comment_vars, db_vars, link_vars, create_vars, milestone_vars>>

SpecTranslate == InitTranslate /\ [][NextTranslate]_vars

\* the setup of main() under every condition of its surroundings
InitSetup ==
    SetupInit /\ EngineIdle /\ RetryInit /\ StoreIdle /\ AreaIdle /\ TranslateIdle /\
      FooterIdle /\ BatchIdle /\ CommentIdle /\ DbIdle /\ LinkIdle /\ CreateIdle /\
      MilestoneIdle

NextSetup ==
    SetupNext /\ UNCHANGED <<engine_vars, retry_vars, store_vars, area_vars, translate_vars,
        footer_vars, batch_vars, comment_vars, db_vars, link_vars, create_vars, milestone_vars>>

SpecSetup == InitSetup /\ [][NextSetup]_vars

\* the footer block, run over run, on every item of the model
InitFooter ==
    FooterInit /\ EngineIdle /\ RetryInit /\ StoreIdle /\ AreaIdle /\ TranslateIdle /\
      SetupIdle /\ BatchIdle /\ CommentIdle /\ DbIdle /\ LinkIdle /\ CreateIdle /\ MilestoneIdle

NextFooter ==
    FooterNext /\ UNCHANGED <<engine_vars, retry_vars, store_vars, area_vars, translate_vars,
        setup_vars, batch_vars, comment_vars, db_vars, link_vars, create_vars, milestone_vars>>

SpecFooter == InitFooter /\ [][NextFooter]_vars

\* batch_create_gitlab_items on every items_data list of the model
InitBatch ==
    BatchInit /\ EngineIdle /\ RetryInit /\ StoreIdle /\ AreaIdle /\ TranslateIdle /\
      SetupIdle /\ FooterIdle /\ CommentIdle /\ DbIdle /\ LinkIdle /\ CreateIdle /\
      MilestoneIdle

NextBatch ==
    BatchNext /\ UNCHANGED <<engine_vars, retry_vars, store_vars, area_vars, translate_vars,
        setup_vars, footer_vars, comment_vars, db_vars, link_vars, create_vars, milestone_vars>>

SpecBatch == InitBatch /\ [][NextBatch]_vars

\* the comments of one item with a target item at hand, for every comment list of the model
InitComment ==
    CommentInit /\ EngineIdle /\ RetryInit /\ StoreIdle /\ AreaIdle /\ TranslateIdle /\
      SetupIdle /\ FooterIdle /\ BatchIdle /\ DbIdle /\ LinkIdle /\ CreateIdle /\ MilestoneIdle

NextComment ==
    CommentNext /\ UNCHANGED <<engine_vars, retry_vars, store_vars, area_vars, translate_vars,
        setup_vars, footer_vars, batch_vars, db_vars, link_vars, create_vars, milestone_vars>>

SpecComment == InitComment /\ [][NextComment]_vars

\* the work item mappings of the DatabaseHandler under every sequence of calls of the model
InitDbMappings ==
    DbMappingsInit /\ EngineIdle /\ RetryInit /\ StoreIdle /\ AreaIdle /\ TranslateIdle /\
      SetupIdle /\ FooterIdle /\ BatchIdle /\ CommentIdle /\ LinkIdle /\ CreateIdle /\
      MilestoneIdle

NextDbMappings ==
    DbMappingsNext /\ UNCHANGED <<engine_vars, retry_vars, store_vars, area_vars,
        translate_vars, setup_vars, footer_vars, batch_vars, comment_vars, link_vars,
        create_vars, milestone_vars>>

SpecDbMappings == InitDbMappings /\ [][NextDbMappings]_vars

\* the relationships of the DatabaseHandler under every sequence of calls of the model
InitDbRelationships ==
    DbRelationshipsInit /\ EngineIdle /\ RetryInit /\ StoreIdle /\ AreaIdle /\ TranslateIdle /\
      SetupIdle /\ FooterIdle /\ BatchIdle /\ CommentIdle /\ LinkIdle /\ CreateIdle /\
      MilestoneIdle

NextDbRelationships ==
    DbRelationshipsNext /\ UNCHANGED <<engine_vars, retry_vars, store_vars, area_vars,
        translate_vars, setup_vars, footer_vars, batch_vars, comment_vars, link_vars,
        create_vars, milestone_vars>>

SpecDbRelationships == InitDbRelationships /\ [][NextDbRelationships]_vars

\* the migration rows of the DatabaseHandler under every sequence of calls of the model
InitDbMigration ==
    DbMigrationInit /\ EngineIdle /\ RetryInit /\ StoreIdle /\ AreaIdle /\ TranslateIdle /\
      SetupIdle /\ FooterIdle /\ BatchIdle /\ CommentIdle /\ LinkIdle /\ CreateIdle /\
      MilestoneIdle

NextDbMigration ==
    DbMigrationNext /\ UNCHANGED <<engine_vars, retry_vars, store_vars, area_vars,
        translate_vars, setup_vars, footer_vars, batch_vars, comment_vars, link_vars,
        create_vars, milestone_vars>>

SpecDbMigration == InitDbMigration /\ [][NextDbMigration]_vars

\* one relation between two mapped items under every configuration of the link types
InitLink ==
    LinkInit /\ EngineIdle /\ RetryInit /\ StoreIdle /\ AreaIdle /\ TranslateIdle /\
      SetupIdle /\ FooterIdle /\ BatchIdle /\ CommentIdle /\ DbIdle /\ CreateIdle /\
      MilestoneIdle

NextLink ==
    LinkNext /\ UNCHANGED <<engine_vars, retry_vars, store_vars, area_vars, translate_vars,
        setup_vars, footer_vars, batch_vars, comment_vars, db_vars, create_vars, milestone_vars>>

SpecLink == InitLink /\ [][NextLink]_vars

\* the creation of one item under every configuration of the types
InitCreate ==
    CreateInit /\ EngineIdle /\ RetryInit /\ StoreIdle /\ AreaIdle /\ TranslateIdle /\
      SetupIdle /\ FooterIdle /\ BatchIdle /\ CommentIdle /\ DbIdle /\ LinkIdle /\ MilestoneIdle

NextCreate ==
    CreateNext /\ UNCHANGED <<engine_vars, retry_vars, store_vars, area_vars, translate_vars,
        setup_vars, footer_vars, batch_vars, comment_vars, db_vars, link_vars, milestone_vars>>

SpecCreate == InitCreate /\ [][NextCreate]_vars

\* one call of get_or_create_gitlab_milestone on every argument and every answer of the model
InitMilestone ==
    MilestoneInit /\ EngineIdle /\ RetryInit /\ StoreIdle /\ AreaIdle /\ TranslateIdle /\
      SetupIdle /\ FooterIdle /\ BatchIdle /\ CommentIdle /\ DbIdle /\ LinkIdle /\ CreateIdle

NextMilestone ==
    MilestoneNext /\ UNCHANGED <<engine_vars, retry_vars, store_vars, area_vars,
        translate_vars, setup_vars, footer_vars, batch_vars, comment_vars, db_vars, link_vars,
        create_vars>>

SpecMilestone == InitMilestone /\ [][NextMilestone]_vars

(* ======================= the claims: the engine ======================= *)

\* target items that exist for a source id
ItemsOf(s) == {t \in gl_items : t.ado = s}

C2_ResumeFindsMapping ==
    [][(last.op = "kill" /\ last.result = "mid_item" /\ pc' = "item")
          => last.id \in DOMAIN ado_id_to_gitlab']_vars

\* C3: while the process runs, a mapping that is in the identity map is
\* neither changed nor removed, and the map changes only by the put of the
\* current item, which was absent from it.
C3_MappingsNeverOverwritten ==
    [][(~Stopped /\ ~Stopped')
          => /\ \A s \in DOMAIN ado_id_to_gitlab :
                    /\ s \in DOMAIN ado_id_to_gitlab'
                    /\ ado_id_to_gitlab'[s] = ado_id_to_gitlab[s]
             /\ ado_id_to_gitlab' # ado_id_to_gitlab
                    => /\ pc = "put"
                       /\ ado_work_item_id \notin DOMAIN ado_id_to_gitlab
                       /\ DOMAIN ado_id_to_gitlab' = DOMAIN ado_id_to_gitlab \cup {ado_work_item_id}
      ]_vars

\* C3 witness: a put was made into a map that held a loaded mapping.
C3_Witness ==
    /\ last.op = "put"
    /\ loaded_ids # {}
    /\ loaded_ids \subseteq DOMAIN ado_id_to_gitlab
    /\ last.id \in DOMAIN ado_id_to_gitlab \ loaded_ids

\* a mapping record names a target item that was created for that source id
RecordIsOfCreatedItem(s, rec) ==
    \E t \in gl_items : /\ t.ado = s /\ t.kind = rec.type
                        /\ t.iid = rec.id /\ t.gid = rec.gitlab_global_id

\* C4: every mapping in memory and in the file names a target item that the
\* create call for that source id returned; after a failed translation or a
\* failed create of s there is no mapping for s in memory or in the file.
C4_MappingOnlyAfterCreate ==
    /\ \A s \in DOMAIN ado_id_to_gitlab : RecordIsOfCreatedItem(s, ado_id_to_gitlab[s])
    /\ \A s \in DOMAIN load_mapping(disk) : RecordIsOfCreatedItem(s, load_mapping(disk)[s])
    /\ ( \/ last.op = "create" /\ last.result # "created"
         \/ last.op = "translate" /\ last.result = "raise" )
          => /\ last.id \notin DOMAIN ado_id_to_gitlab
             /\ last.id \notin DOMAIN load_mapping(disk)

\* C4 witness: the create of an item failed in a run whose map and file hold
\* the mapping of another item.
C4_Witness ==
    /\ last.op = "create" /\ last.result # "created"
    /\ ado_id_to_gitlab # EmptyMap
    /\ DOMAIN load_mapping(disk) # {}

\* C5, as claimed: a mapping that is in the file stays in the file, with the
\* same record, whatever happens later.
C5_MappingsAreDurable ==
    [][\A s \in DOMAIN load_mapping(disk) :
          /\ s \in DOMAIN load_mapping(disk')
          /\ load_mapping(disk')[s] = load_mapping(disk)[s]]_vars

\* the steps of Phase 2
Phase2Ops == {"fetch_relations", "link_item", "relation", "relations_done"}

\* C6: whenever main() is in Phase 2 or has just issued a relation fetch or a
\* link call, the Phase 1 loop has gone through every fetched item and no
\* item is in the middle of its Phase 1 processing.
C6_Phase2AfterPhase1 ==
    (InPhase2 \/ (~Stopped /\ last.op \in Phase2Ops))
       => /\ \A i \in 1..Len(details) : i < idx
          /\ ~InPhase1
          /\ created_gl_item = NoItem /\ gitlab_item_for_comments = NoItem

\* C6 witness: a link was created in Phase 2 of a run that fetched every item.
C6_Witness ==
    /\ last.op = "relation" /\ last.result = "linked"
    /\ Len(details) = NumItems

LastRelation == Relations(last.id)[k - 1]

\* a relation step was just taken
RelationStepTaken == last.op = "relation" /\ pc = "p2_rel" /\ k > 1

\* the position of the relation loops: item, then relation
Position == <<j, k>>
NotBefore(p, q) == p[1] > q[1] \/ (p[1] = q[1] /\ p[2] >= q[2])

\* C14: a relation of Phase 2 whose referenced source id is not in the
\* identity map is skipped: the step issues no target-side call, main() writes
\* one log entry for it (the INFO record of line 548; the DEBUG record of line
\* 545 is below the level of the handlers), and the loops of Phase 2 only move
\* forward over an unchanged batch, so no relation is taken up again in the run.
C14_UnmappedTargetIsSkipped ==
    /\ [](( /\ RelationStepTaken
            /\ target_ado_id(LastRelation) # 0
            /\ target_ado_id(LastRelation) \notin DOMAIN ado_id_to_gitlab )
             => /\ last.result = "skipped"
                /\ last.calls = {}
                /\ Len(written(main_relation_log(last.id, LastRelation, ado_id_to_gitlab))) = 1)
    /\ [][(InPhase2 /\ InPhase2' /\ pc # "p2_fetch")
             => /\ batch2' = batch2
                /\ ado_id_to_gitlab' = ado_id_to_gitlab
                /\ NotBefore(Position', Position)
                /\ last'.op = "relation" => Position' # Position]_vars

\* C14 witness: in a run with mappings, a relation to a source id without
\* mapping was skipped.
C14_Witness ==
    /\ RelationStepTaken
    /\ ado_id_to_gitlab # EmptyMap
    /\ target_ado_id(LastRelation) \notin DOMAIN ado_id_to_gitlab
    /\ last.result = "skipped"

\* the edge a link call asks for is in the target already
EdgePresent(c, links) ==
    \/ c \in links
    \/ c.kind = "issue_link"
          /\ \E l \in links : l.kind = "issue_link" /\ l.a = c.b /\ l.b = c.a

\* every link Phase 2 can ask for over a map is in the target
AllEdgesPresent(map, links) ==
    \A s \in DOMAIN map : \A i \in 1..Len(Relations(s)) :
        LET c == LinkCallFor(s, Relations(s)[i], map)
        IN  c = NoCall \/ EdgePresent(c, links)

ItemAbandoned ==
    \/ last.op = "translate" /\ last.result = "raise"
    \/ last.op = "create" /\ last.result # "created"

\* C16: after a failed translation or creation the Phase 1 loop is at the
\* item that follows the abandoned one and the process goes on; the loop moves
\* one item at a time and Phase 2 begins only past the last fetched item, so
\* every later item is taken up; and every run in Phase 1 finishes, which it
\* does from Phase 2 only, when nothing kills the process.
C16_FailureAbandonsOneItem ==
    /\ [](ItemAbandoned
             => /\ pc = "item"
                /\ idx <= Len(details) + 1
                /\ details[idx - 1] = last.id)
    /\ [][(InPhase1 /\ InPhase1')
             => /\ details' = details
                /\ idx' \in {idx, idx + 1}
                /\ (pc = "item" /\ idx <= Len(details))
                      => last'.id = details[idx] /\ last'.op \in {"fetch_existing", "translate"}]_vars
    /\ [][(InPhase1 /\ InPhase2') => idx > Len(details)]_vars
    /\ [][(pc' = "finished" /\ pc # "finished") => InPhase2]_vars
    /\ InPhase1 ~> (pc = "finished")

\* C16 witness: the first of two fetched items was abandoned and the second
\* was created in the same run.
C16_Witness ==
    /\ Len(details) = NumItems
    /\ last.op = "create" /\ last.result = "created"
    /\ last.id = details[Len(details)]
    /\ details[1] \notin DOMAIN ado_id_to_gitlab

(* ======================= the claims: call_with_retry ======================= *)

\* a failure the claims call retryable: HTTP 429, 500, 502, 503, 504 or a
\* read / connect timeout
RetryableFailure(e) ==
    \/ e = Raises("ReadTimeout", 0, <<>>)
    \/ e = Raises("ConnectTimeout", 0, <<>>)
    \/ \E c \in {429, 500, 502, 503, 504} : e = Raises("GitlabHttpError", c, <<>>)

\* C8: when the first two invocations fail retryably the call is still going
\* on, and when the third then succeeds the call returns that invocation's
\* result, after 3 invocations and two sleeps of 5 s and 10 s, in that order.
C8_RetryThenSucceed ==
    /\ (Len(r_outcomes) = 2 /\ RetryableFailure(r_outcomes[1]) /\ RetryableFailure(r_outcomes[2]))
          => r_pc \in {"sleep", "invoke"} /\ r_result = Pending
    /\ ( /\ Len(r_outcomes) = 3
         /\ RetryableFailure(r_outcomes[1]) /\ RetryableFailure(r_outcomes[2])
         /\ r_outcomes[3] = Returns )
          => /\ r_pc = "done"
             /\ r_result = ReturnedValue(3)
             /\ r_invocations = 3
             /\ r_sleeps = <<5, 10>>

\* C8 witness: a call failed with 503 twice and returned on the third invocation.
C8_Witness ==
    /\ r_outcomes = <<Raises("GitlabHttpError", 503, <<>>), Raises("GitlabHttpError", 503, <<>>),
                      Returns>>
    /\ r_pc = "done"

C9_AtMostThreeInvocations ==
    /\ r_invocations <= MAX_RETRIES
    /\ Len(r_sleeps) < MAX_RETRIES
    /\ r_invocations = MAX_RETRIES => r_pc = "done"
    /\ ( /\ Len(r_outcomes) = 3
         /\ \A i \in 1..3 : RetryableFailure(r_outcomes[i]) )
          => /\ r_pc = "done"
             /\ r_result = Raised(3, r_outcomes[3])
             /\ r_sleeps = <<5, 10>>

\* C9: a call never invokes the operation more than MAX_RETRIES = 3 times and
\* is over once it has; after three retryable failures it has raised the third
\* failure, having slept twice (not after the last attempt); and every call
\* that has begun comes to its end.
C9_CallTerminates ==
    /\ []C9_AtMostThreeInvocations
    /\ (r_pc = "invoke") ~> (r_pc = "done")

\* C9 witness: all three invocations failed retryably and the call raised.
C9_Witness ==
    /\ Len(r_outcomes) = 3
    /\ \A i \in 1..3 : RetryableFailure(r_outcomes[i])
    /\ r_result.kind = "raised"

\* the messages the claim calls duplicate signals, in some casing
ClaimedDuplicates == {MsgTaken, MsgRelated, MsgAssigned, MsgMember}

\* C10: a call whose operation fails with a GitlabCreateError carrying one of
\* the four duplicate messages, in any casing, returns None after that one
\* invocation, without sleeping or raising; a link helper whose link call
\* returned None reports True.
C10_DuplicateIsNoOp ==
    /\ ( /\ Len(r_outcomes) >= 1
         /\ r_outcomes[1].exc = "GitlabCreateError"
         /\ r_outcomes[1].msg \in ClaimedDuplicates )
          => /\ r_pc = "done"
             /\ r_result = ReturnedNone
             /\ r_invocations = 1
             /\ r_sleeps = <<>>
    /\ ( /\ r_helper \in {"link_gitlab_issues", "link_gitlab_epic_issue"}
         /\ r_stage = "returned"
         /\ r_op = "create"
         /\ r_outcomes[Len(r_outcomes)].exc = "GitlabCreateError"
         /\ r_outcomes[Len(r_outcomes)].msg \in ClaimedDuplicates )
          => helper_result = "True"

\* C10 witness: link_gitlab_issues returned after its link call failed with
\* "ALREADY Related".
C10_Witness ==
    /\ r_helper = "link_gitlab_issues"
    /\ r_stage = "returned"
    /\ r_outcomes = <<Raises("GitlabCreateError", 409, MsgRelated)>>
    /\ helper_result = "True"

\* the create call of a helper came back with the None sentinel
CreateReturnedNone ==
    /\ r_helper \in Helpers \ {"call"}
    /\ r_stage = "returned"
    /\ r_op = "create"
    /\ r_result = ReturnedNone

\* C11, as claimed: when the create call of a helper returned None (duplicate
\* signal), no caller takes the operation as failed: not for an item, a label,
\* a note or a link.
C11_NoneIsNeverFailure ==
    CreateReturnedNone => ~handled_as_failed(r_helper, helper_result)

\* the errors the claim names: neither transient nor a duplicate signal
ClaimedNonTransient(e) ==
    \/ e.exc = "GitlabGetError"
    \/ e.exc = "GitlabHttpError" /\ e.code \notin {429, 500, 502, 503, 504}
    \/ e.exc = "GitlabCreateError" /\ e.msg \in {MsgInvalid, MsgExists}
    \/ e.exc = "ValueError"

\* C12: when an invocation fails with an error that is neither transient nor
\* a duplicate signal, the call is over with that error raised: the operation
\* is not invoked again and no sleep follows the failed invocation; when it
\* was the first invocation the call made one invocation and did not sleep.
C12_NonTransientIsRaisedAtOnce ==
    (Len(r_outcomes) >= 1 /\ ClaimedNonTransient(r_outcomes[Len(r_outcomes)]))
       => /\ r_pc = "done"
          /\ r_result = Raised(Len(r_outcomes), r_outcomes[Len(r_outcomes)])
          /\ r_invocations = Len(r_outcomes)
          /\ Len(r_sleeps) = Len(r_outcomes) - 1
          /\ Len(r_outcomes) = 1 => r_invocations = 1 /\ r_sleeps = <<>>

\* C12 witness: a bare call whose first invocation failed with HTTP 400 has
\* raised it.
C12_Witness ==
    /\ r_helper = "call"
    /\ r_outcomes = <<Raises("GitlabHttpError", 400, <<>>)>>
    /\ r_result = Raised(1, Raises("GitlabHttpError", 400, <<>>))
    /\ r_sleeps = <<>>

(* ======================= the claims: the mapping file ======================= *)

\* the files the claim names: missing, truncated or not valid JSON, valid JSON
\* that is not an object, an object with a key that is not an integer
ClaimedBadFile(file) ==
    \/ file \in {AbsentFile, CorruptFile, NotObjectFile}
    \/ file.kind = "json" /\ DOMAIN file.data \cap {"x", "1.5"} # {}

\* C13: load_mapping never raises; for a missing, truncated, invalid,
\* non-object or non-integer-keyed file it returns the empty map after a log
\* record of level INFO or above; it returns a non-empty map only for a JSON
\* object all of whose keys are integers, and then one entry per key.
C13_LoadNeverAborts ==
    load_result.kind # "not_loaded"
       => /\ load_result.kind = "returned"
          /\ ClaimedBadFile(load_result.of)
                => /\ load_result.map = EmptyMap
                   /\ load_result.log \in {"INFO", "WARNING", "ERROR"}
          /\ load_result.map # EmptyMap
                => /\ load_result.of.kind = "json"
                   /\ DOMAIN load_result.of.data \subseteq {ToString(i) : i \in Ids}
                   /\ {ToString(i) : i \in DOMAIN load_result.map} = DOMAIN load_result.of.data

\* C13 witness: a file whose object holds a good key and a key that is not an
\* integer was loaded as the empty map, with a warning.
C13_Witness ==
    /\ load_result.kind = "returned"
    /\ load_result.of.kind = "json"
    /\ DOMAIN load_result.of.data = {"1", "x"}
    /\ load_result.map = EmptyMap
    /\ load_result.log = "WARNING"

(* ======================= the claims: translation of an item ======================= *)

\* the names for which get_or_create_gitlab_label returned the name
ResolvedNames ==
    LET resolved == SelectSeq(resolve_calls, LAMBDA c : c.result = "resolved")
    IN  [i \in 1..Len(resolved) |-> resolved[i].name]

\* C17: a label or milestone that could not be resolved does not abandon the
\* item: the item is abandoned only by an exception before the label loop or
\* by the create call; the payload of the create call holds exactly the label
\* names that resolved and no milestone unless one resolved; and an item whose
\* create call returned the item has its mapping recorded.
C17_DegradedNotFailed ==
    /\ t_pc \in {"create", "migrated", "abandoned_create"}
          => /\ item_payload.labels = ResolvedNames
             /\ milestone_obj # "milestone" => item_payload.milestone_id = 0
    /\ t_pc = "abandoned_translate" => resolve_calls = <<>> /\ milestone_obj = "unset"
    /\ (\E i \in 1..Len(resolve_calls) : resolve_calls[i].result = "None")
          => t_pc \in {"labels", "create", "migrated", "abandoned_create"}
    /\ milestone_obj = "None" => t_pc \in {"create", "migrated", "abandoned_create"}
    /\ t_mapped <=> t_pc = "migrated"

\* C17 witness: an item is migrated, with its mapping, after one of its
\* labels resolved, another did not and its milestone did not either.
C17_Witness ==
    /\ t_pc = "migrated" /\ t_mapped
    /\ \E i \in 1..Len(resolve_calls) : resolve_calls[i].result = "None"
    /\ Len(item_payload.labels) >= 1
    /\ Len(item_payload.labels) < Len(resolve_calls)
    /\ milestone_obj = "None" /\ item_payload.milestone_id = 0

\* no element occurs twice in the list
NoRepeats(list) == \A a, b \in 1..Len(list) : list[a] = list[b] => a = b

\* C19: the label list of the payload has no repeated name, each call of the
\* label resolution is for a derived name, no name is passed to it twice, and
\* once the label loop is over every distinct derived name was passed once.
C19_LabelsAreDeduplicated ==
    /\ NoRepeats(final_gl_labels)
    /\ NoRepeats(item_payload.labels)
    /\ NoRepeats([i \in 1..Len(resolve_calls) |-> resolve_calls[i].name])
    /\ \A i \in 1..Len(resolve_calls) : resolve_calls[i].name \in Range(labels_to_apply_names)
    /\ t_pc \in {"create", "migrated", "abandoned_create"}
          => {resolve_calls[i].name : i \in 1..Len(resolve_calls)} = Range(labels_to_apply_names)

\* C19 witness: an item whose rules derived a name twice is created with two
\* or more labels.
C19_Witness ==
    /\ t_pc = "migrated"
    /\ ~NoRepeats(labels_to_apply_names)
    /\ Len(item_payload.labels) >= 2

(* ======================= the claims: area-path labels ======================= *)

\* the labels the claim gives for remaining segments s1..sn under a strategy
ClaimedAreaLabels(segs, strat) ==
    LET n == Len(segs)
    IN  IF n = 0 THEN {}
        ELSE CASE strat = "last_segment_only" -> { <<area_prefix>> \o segs[n] }
               [] strat = "full_path" -> { <<area_prefix>> \o Join(segs, gitlab_sep) }
               [] strat = "all_segments" -> { <<area_prefix>> \o segs[i] : i \in 1..n }
               [] strat = "all_segments_hierarchical" ->
                     { <<area_prefix>> \o Join(SubSeq(segs, 1, i), gitlab_sep) : i \in 1..n }

\* the first segment is dropped when it is the project name in any casing
WithoutProject(segs) ==
    IF segs # <<>> /\ Lower(segs[1]) = Lower(AZURE_PROJECT) THEN Tail(segs) ELSE segs

\* the remaining segments s1..sn of a path: split on the separator, every
\* segment stripped of its leading and trailing blanks, the empty ones
\* dropped, then the project name
RemainingSegments(path) ==
    LET pieces == Split(path, level_sep)
    IN  WithoutProject(SelectSeq([i \in 1..Len(pieces) |-> Strip(pieces[i])],
                                 LAMBDA piece : piece # <<>>))

\* C20: with the path split on the level separator, every segment stripped of
\* surrounding blanks, the empty ones dropped and the first one dropped when
\* it is the project name in any casing, last_segment_only yields
\* {p+sn}, full_path {p + s1 g ... g sn}, all_segments {p+si}, and
\* all_segments_hierarchical {p + s1 g ... g si : i in 1..n}; no label without
\* a remaining segment.
C20_AreaLabelsPerStrategy ==
    a_pc = "derived"
       => {area_labels[i] : i \in 1..Len(area_labels)}
             = ClaimedAreaLabels(RemainingSegments(area_path), strategy)

\* C20 witness: ProjectX\TeamA\SubTeam under all_segments_hierarchical gave
\* area::TeamA and area::TeamA::SubTeam.
C20_Witness ==
    /\ a_pc = "derived"
    /\ area_path = <<"ProjectX", level_sep, "TeamA", level_sep, "SubTeam">>
    /\ strategy = "all_segments_hierarchical"
    /\ area_labels = << <<area_prefix, "TeamA">>,
                        <<area_prefix, "TeamA", gitlab_sep, "SubTeam">> >>

(* ======================= the claims: setup ======================= *)

\* the setup-fatal conditions the claim names
SetupFatal ==
    \/ ~cfg_file.exists
    \/ cfg_file.yaml = "error"
    \/ cfg_file.yaml = "mapping" /\ validation_fails(cfg_file)
    \/ ado_conn = "fail"
    \/ ado_project = "not_found"
    \/ gl_conn \in {"auth_fail", "project_not_found", "group_not_found"}

\* C18, as claimed: under a setup-fatal condition the process does not get
\* past the setup, and when it has ended it has exited with status 1.
C18_SetupFatalExits ==
    SetupFatal => /\ s_pc \notin {"load_map", "phase1"}
                  /\ s_pc = "exited" => exit_status = 1

(* ======================= the claims: migration footer ======================= *)

\* the parts of the footer in the order of the claim, each with its presence
ClaimedParts(id, fields, priority_ref) ==
    LET has(key) == key \in DOMAIN fields
        text(key) == IF has(key) THEN fields[key] ELSE <<>>
    IN  << [listed |-> TRUE,
            text |-> <<"Type: ">> \o (IF has("System.WorkItemType")
                                      THEN fields["System.WorkItemType"] ELSE <<"WorkItem">>)],
           [listed |-> TRUE,
            text |-> <<"State: ">> \o (IF has("System.State")
                                       THEN fields["System.State"] ELSE <<"Undefined">>)],
           [listed |-> priority_ref # "" /\ has(priority_ref),
            text |-> <<"Priority: ">> \o (IF priority_ref # "" /\ has(priority_ref)
                                          THEN <<ToString(fields[priority_ref])>> ELSE <<>>)],
           [listed |-> text("System.Tags") # <<>>,
            text |-> <<"Original ADO Tags: ">> \o text("System.Tags")],
           [listed |-> text("System.AreaPath") # <<>>,
            text |-> <<"Original Area: ">> \o text("System.AreaPath")],
           [listed |-> text("System.IterationPath") # <<>>,
            text |-> <<"Original Iteration: ">> \o text("System.IterationPath")] >>

ClaimedFooter(id, fields, priority_ref) ==
    LET listed == SelectSeq(ClaimedParts(id, fields, priority_ref), LAMBDA part : part.listed)
    IN  <<"\n\n---\nMigrated from ADO #", ToString(id), " (">>
          \o Join([i \in 1..Len(listed) |-> listed[i].text], ", ") \o <<")">>

\* C21: the footers that the runs build for an item with the same id, fields
\* and configured priority field are the same string, and that string lists
\* id, type and state always and then priority, tags, area and iteration, in
\* this order, each exactly when it is present (the priority read through the
\* configured field is not None, the other three are not empty).
C21_FooterIsDeterministic ==
    /\ \A r, q \in 1..MaxRuns :
          (footers[r] # <<>> /\ footers[q] # <<>>) => footers[r] = footers[q]
    /\ \A r \in 1..MaxRuns :
          footers[r] # <<>> => footers[r] = ClaimedFooter(f_id, f_fields, f_priority_ref)

\* C21 witness: two runs built the footer of an item that has a priority of
\* 0, tags and an iteration path and no area path.
C21_Witness ==
    /\ footers[1] # <<>> /\ footers[2] # <<>>
    /\ f_priority_ref # ""
    /\ DOMAIN f_fields = FooterKeys
    /\ f_fields[f_priority_ref] = 0
    /\ f_fields["System.Tags"] # <<>>
    /\ f_fields["System.AreaPath"] = <<>>
    /\ f_fields["System.IterationPath"] # <<>>

(* ======================= the claims: the mapping file, saved and loaded ======================= *)

\* C22: when save_mapping has written a map from integer source ids to
\* {type, id, gitlab_global_id} records and load_mapping is then called on the
\* file as the save left it, the load returns a map equal to the saved one:
\* the same integer keys, the same record under each.
C22_SaveThenLoadRoundTrips ==
    (saved_map.kind = "saved" /\ load_result.kind # "not_loaded" /\ load_result.of = map_file)
       => /\ load_result.kind = "returned"
          /\ DOMAIN load_result.map = DOMAIN saved_map.map
          /\ \A s \in DOMAIN saved_map.map : load_result.map[s] = saved_map.map[s]
          /\ load_result.map = saved_map.map

\* C22 witness: a map with an epic under 1 and an issue under 2 was saved
\* and loaded back.
C22_Witness ==
    /\ saved_map.kind = "saved"
    /\ DOMAIN saved_map.map = {1, 2}
    /\ saved_map.map[1].type = "epic" /\ saved_map.map[2].type = "issue"
    /\ load_result.kind = "returned" /\ load_result.of = map_file
    /\ load_result.map = saved_map.map

(* ======================= the claims: batch creation ======================= *)

\* the create calls issued for a source id
CreateCallsFor(s) == {i \in 1..Len(b_create_calls) : b_create_calls[i].ado_id = s}

\* C23, as claimed: for any items_data at most one create call is issued per
\* source id, none for an id that is in the identity map, and no two workers
\* run a creation for the same source id at the same time.
C23_OneCreatePerSourceId ==
    /\ \A s \in Ids : Cardinality(CreateCallsFor(s)) <= 1
    /\ \A s \in b_mapped : CreateCallsFor(s) = {}
    /\ \A w, v \in Workers :
          (w # v /\ worker_task[w] # 0 /\ worker_task[v] # 0)
             => items_data[worker_task[w]].ado_id # items_data[worker_task[v]].ado_id

(* ======================= the claims: comments ======================= *)

\* C24, as claimed: once the comment loop of an item is over, each comment the
\* fetch returned has exactly one notes.create call on the target item, and
\* the calls are in the order of the returned list, which ascends in the
\* source creation timestamp.
C24_OneNotePerCommentInOrder ==
    /\ \A i \in 1..(Len(c_list) - 1) :
          c_list[i].created_date.t <= c_list[i + 1].created_date.t
    /\ c_pc = "done"
          => /\ Len(note_calls) = Len(c_list)
             /\ \A i \in 1..Len(c_list) : note_calls[i].comment = c_list[i].id

(* ======================= the claims: DatabaseHandler ======================= *)

\* the mappings added for a source id
MappingsAdded(a) ==
    {i \in 1..Len(work_item_mappings) : work_item_mappings[i].ado_id = a}

\* C25, as claimed: get_gitlab_id_from_ado_id(a) never raises; it returns the
\* (gitlab_id, gitlab_type) of a mapping added for a when there is one and
\* (None, None) when there is none.
C25_LookupReturnsRecordedMapping ==
    db_last.op = "get_gitlab_id_from_ado_id"
       => /\ db_last.kind = "returned"
          /\ IF MappingsAdded(db_last.arg) = {}
             THEN db_last.value = <<"None", "None">>
             ELSE \E i \in MappingsAdded(db_last.arg) :
                     db_last.value = <<work_item_mappings[i].gitlab_id,
                                       work_item_mappings[i].gitlab_type>>

\* the relationships of the current migration no update was called for
NotUpdated ==
    {i \in 1..Len(relationship_mappings) :
        /\ relationship_mappings[i].migration_state_id = current_migration
        /\ relationship_mappings[i].status = "None"}

\* C26: get_pending_relationships returns only relationships of the current
\* migration for which update_relationship_status was not called, all of them
\* when they are no more than the limit and limit of them otherwise; an update
\* marks the row processed with the given status; and no step removes a row,
\* resets processed or moves a row to another migration, so an updated
\* relationship is never returned again.
C26_RelationshipLifecycle ==
    /\ [](db_last.op = "get_pending_relationships" /\ current_migration # 0
            => /\ db_last.value[1] \subseteq NotUpdated
               /\ Cardinality(NotUpdated) <= db_last.arg => db_last.value[1] = NotUpdated
               /\ Cardinality(db_last.value[1]) <= db_last.arg)
    /\ []((db_last.op = "update_relationship_status" /\ db_last.value[1])
            => /\ relationship_mappings[db_last.arg].processed
               /\ relationship_mappings[db_last.arg].status = db_last.value[2])
    /\ [](\A i \in 1..Len(relationship_mappings) :
            relationship_mappings[i].processed <=> relationship_mappings[i].status # "None")
    /\ [][/\ Len(relationship_mappings') >= Len(relationship_mappings)
          /\ \A i \in 1..Len(relationship_mappings) :
                /\ relationship_mappings[i].processed => relationship_mappings'[i].processed
                /\ relationship_mappings'[i].migration_state_id
                      = relationship_mappings[i].migration_state_id]_vars

\* C26 witness: of two relationships added in the current migration one was
\* updated, and get_pending_relationships then returned the other alone.
C26_Witness ==
    /\ db_last.op = "get_pending_relationships" /\ db_last.arg = 100
    /\ Len(relationship_mappings) = 2
    /\ relationship_mappings[1].migration_state_id = current_migration
    /\ relationship_mappings[2].migration_state_id = current_migration
    /\ relationship_mappings[1].processed /\ ~relationship_mappings[2].processed
    /\ db_last.value[1] = {2}

(* ======================= the claims: the links ======================= *)

Hierarchical == ado_link_ref_name \in {"System.LinkTypes.Hierarchy-Forward",
                                       "System.LinkTypes.Hierarchy-Reverse"}
Processed == ado_link_ref_name # "None"

\* the parent and the child of a hierarchical relation, as claimed: Forward has
\* the current item as the child, Reverse has it as the parent
ClaimedParent ==
    IF ado_link_ref_name = "System.LinkTypes.Hierarchy-Forward"
    THEN target_gitlab_info ELSE source_gitlab_info
ClaimedChild ==
    IF ado_link_ref_name = "System.LinkTypes.Hierarchy-Forward"
    THEN source_gitlab_info ELSE target_gitlab_info

\* C27: a hierarchical relation between an epic parent and an issue child makes
\* exactly one epic-issue call with the epic's local id and the issue's global
\* id; between two issues exactly one issue link of type relates_to; any other
\* pair of variants none; and whatever the link-type table and the default say
\* about the relation, no call beyond these is made.
C27_HierarchicalLinksByVariantPair ==
    (Processed /\ Hierarchical)
       => IF ClaimedParent.type = "epic" /\ ClaimedChild.type = "issue"
          THEN link_calls = <<[kind |-> "epic_issue", a |-> ClaimedParent.id,
                               b |-> ClaimedChild.gitlab_global_id, link_type |-> "child"]>>
          ELSE IF ClaimedParent.type = "issue" /\ ClaimedChild.type = "issue"
          THEN link_calls = <<[kind |-> "issue_link", a |-> ClaimedParent.id,
                               b |-> ClaimedChild.id, link_type |-> "relates_to"]>>
          ELSE link_calls = <<>>

\* C27 witness: a Hierarchy-Forward relation from an issue to an epic, with a
\* table that gives the relation a link type, led to the one epic-issue call.
C27_Witness ==
    /\ ado_link_ref_name = "System.LinkTypes.Hierarchy-Forward"
    /\ "System.LinkTypes.Hierarchy-Forward" \in DOMAIN link_type_mapping
    /\ link_type_mapping["System.LinkTypes.Hierarchy-Forward"] = "blocks"
    /\ source_gitlab_info.type = "issue" /\ target_gitlab_info.type = "epic"
    /\ link_calls = <<[kind |-> "epic_issue", a |-> 12, b |-> 111, link_type |-> "child"]>>

\* the link type a generic relation resolves to, as claimed: the table's entry,
\* the default when the table has none or has null
ClaimedLinkType ==
    IF ado_link_ref_name \in DOMAIN link_type_mapping
       /\ link_type_mapping[ado_link_ref_name] # "None"
    THEN link_type_mapping[ado_link_ref_name]
    ELSE default_gitlab_link_type

\* C28: a generic relation makes an issue link call, one, from the source issue
\* to the target issue with the resolved type, exactly when both items are
\* issues and the type resolves to a link type that is no marker; without a
\* default, a relation absent from the table or mapped to null makes no call.
C28_GenericLinkNeedsIssuesAndType ==
    (Processed /\ ~Hierarchical)
       => /\ IF /\ source_gitlab_info.type = "issue" /\ target_gitlab_info.type = "issue"
                /\ ClaimedLinkType \notin {"None", "_parent_of_current_", "_child_of_current_"}
             THEN link_calls = <<[kind |-> "issue_link", a |-> source_gitlab_info.id,
                                  b |-> target_gitlab_info.id, link_type |-> ClaimedLinkType]>>
             ELSE link_calls = <<>>
          /\ (/\ default_gitlab_link_type = "None"
              /\ \/ ado_link_ref_name \notin DOMAIN link_type_mapping
                 \/ link_type_mapping[ado_link_ref_name] = "None")
                => link_calls = <<>>

\* C28 witness: two issues, a Related relation the table maps to a marker and a
\* default of relates_to: no call was made.
C28_Witness ==
    /\ ado_link_ref_name = "System.LinkTypes.Related"
    /\ "System.LinkTypes.Related" \in DOMAIN link_type_mapping
    /\ link_type_mapping["System.LinkTypes.Related"] = "_parent_of_current_"
    /\ default_gitlab_link_type = "relates_to"
    /\ source_gitlab_info.type = "issue" /\ target_gitlab_info.type = "issue"
    /\ link_calls = <<>>

(* ======================= the claims: the creation of an item ======================= *)

\* C29, as claimed: the payload passed to create_gitlab_epic has no milestone_id.
C29_EpicPayloadHasNoMilestone ==
    cr_call.helper = "create_gitlab_epic" => cr_call.payload.milestone_id = 0

\* C30, as claimed: a recorded mapping has the type "epic" or "issue", "epic"
\* when create_gitlab_epic made the item and "issue" when create_gitlab_issue did.
C30_RecordedTypeIsKindCreated ==
    cr_mapping # NoMapping
       => /\ cr_mapping.type \in {"epic", "issue"}
          /\ cr_call.helper = "create_gitlab_epic" => cr_mapping.type = "epic"
          /\ cr_call.helper = "create_gitlab_issue" => cr_mapping.type = "issue"

(* ======================= the claims: the helpers ======================= *)

LabelHelper == r_helper = "get_or_create_gitlab_label"
LastOutcome == r_outcomes[Len(r_outcomes)]

\* the create errors call_with_retry takes as a duplicate
AbsorbedAsDuplicate(e) ==
    e.exc = "GitlabCreateError" /\ e.msg \in {MsgTaken, MsgRelated, MsgAssigned, MsgMember}

\* C31: get_or_create_gitlab_label begins its create call only when the get
\* call ended with a GitlabGetError 404, and after the create call it returns:
\* there is one create call.  With a name it returns the name when the get
\* returned, or when the create returned or was taken as a duplicate, and None
\* when the get ended with another error or the create raised.  With an empty
\* name it returns None and nothing was invoked.
C31_LabelGetThenCreate ==
    /\ [][(LabelHelper /\ r_stage' = "create" /\ r_stage # "create")
             => /\ r_stage = "fetch" /\ r_op = "get" /\ r_outcomes # <<>>
                /\ LastOutcome = [exc |-> "GitlabGetError", code |-> 404, msg |-> <<>>]]_vars
    /\ [][(LabelHelper /\ r_stage = "create") => r_stage' \in {"create", "returned"}]_vars
    /\ [][r_stage = "returned" => r_stage' = "returned"]_vars
    /\ []((LabelHelper /\ r_stage = "returned" /\ r_label_name # <<>>)
            => /\ r_outcomes # <<>>
               /\ helper_result \in {"label_name", "None"}
               /\ helper_result = "label_name"
                     <=> IF r_op = "get" THEN LastOutcome.exc = "none"
                         ELSE LastOutcome.exc = "none" \/ AbsorbedAsDuplicate(LastOutcome))
    /\ []((LabelHelper /\ r_stage = "returned" /\ r_label_name = <<>>)
            => helper_result = "None" /\ r_invocations = 0 /\ r_pc = "idle")

\* C31 witness: the get was answered 404, the create was taken as a duplicate
\* and the name was returned.
C31_Witness ==
    /\ LabelHelper /\ r_stage = "returned" /\ r_op = "create"
    /\ r_label_name # <<>>
    /\ AbsorbedAsDuplicate(LastOutcome)
    /\ helper_result = "label_name"

\* the calls of a kind among the calls made
MilestoneCalls(kind) == {i \in 1..Len(ms_calls) : ms_calls[i].call = kind}

\* the milestones of exactly the requested title in the answer of a list call
ExactIn(answer) == {m \in answer.items : m.title = ms_title}

\* C32: called with a title on a project or group, get_or_create_gitlab_milestone
\* returns None or a milestone of exactly the requested title.  When the first
\* list holds one of that title it is returned and no create call is made;
\* otherwise one create call is made, with the title.  Only when the create
\* was a duplicate is the list call made again, once, and a milestone of the
\* title in its answer, or None when there is none, is returned.
C32_MilestoneExactTitle ==
    /\ ms_returned # NoMilestone => ms_returned.title = ms_title
    /\ Cardinality(MilestoneCalls("create")) <= 1
    /\ Cardinality(MilestoneCalls("list")) <= 2
    /\ (ms_pc = "returned" /\ ms_title # <<>> /\ ms_container # "other")
          => /\ Len(ms_calls) \in 1..3
             /\ ms_calls[1].call = "list"
             /\ IF ExactIn(ms_calls[1].answer) # {}
                THEN Len(ms_calls) = 1 /\ ms_returned \in ExactIn(ms_calls[1].answer)
                ELSE /\ Len(ms_calls) >= 2
                     /\ ms_calls[2].call = "create" /\ ms_calls[2].search = ms_title
                     /\ Len(ms_calls) = 3 <=> ms_calls[2].answer.kind = "duplicate"
                     /\ ms_calls[2].answer.kind = "created"
                           => ms_returned # NoMilestone /\ ms_returned \notin SearchHits
                     /\ ms_calls[2].answer.kind = "raised" => ms_returned = NoMilestone
             /\ Len(ms_calls) = 3
                   => /\ ms_calls[3].call = "list"
                      /\ IF ExactIn(ms_calls[3].answer) # {}
                         THEN ms_returned \in ExactIn(ms_calls[3].answer)
                         ELSE ms_returned = NoMilestone

\* C32 witness: the first list had only titles that contain the requested
\* one, the create was a duplicate, the second list call was made and nothing
\* of the exact title was in it: None was returned after three calls.
C32_Witness ==
    /\ ms_pc = "returned" /\ Len(ms_calls) = 3
    /\ ms_title = <<"Sprint1">>
    /\ ms_calls[1].answer.items = {Milestone(8, <<"Sprint1", "0">>)}
    /\ ms_calls[3].answer.items = {Milestone(9, <<"Old", " ", "Sprint1">>)}
    /\ ms_returned = NoMilestone

\* C33: close_gitlab_issue is called only for an item that was not in the
\* map, whose create call returned an item, whose target type is "issue" and
\* whose state mapping carries the close action; it is called after the create
\* call and before the mapping is put; and whatever it returns, the mapping of
\* the item is put next.
C33_CloseOnlyFreshIssueWithAction ==
    /\ [](cr_close # "none"
            => /\ cr_call.helper = "create_gitlab_issue" /\ cr_created
               /\ cr_target_type = "issue"
               /\ cr_close_action)
    /\ [][cr_close' # cr_close
            => /\ cr_close = "none" /\ cr_mapping = NoMapping
               /\ cr_call.helper = "create_gitlab_issue" /\ cr_created
               /\ cr_pc' = "put"]_vars
    /\ [][cr_pc = "put" => cr_mapping' # NoMapping /\ cr_mapping'.id = 11]_vars
    /\ []((cr_target_type = "epic" \/ ~cr_close_action \/ cr_pc = "abandoned")
            => cr_close = "none")
    /\ []((cr_call = NoCreateCall /\ cr_mapping # NoMapping) => cr_close = "none")

\* C33 witness: the close of a created issue failed and the mapping of the
\* item was recorded.
C33_Witness ==
    /\ cr_close = "False"
    /\ cr_pc = "comments"
    /\ cr_mapping = [type |-> "issue", id |-> 11, gitlab_global_id |-> 111]

(* ======================= the claims: failures that skip one step ======================= *)

\* the comment loop takes one comment
NoteStepTaken == pc = "note" /\ engine_vars' # engine_vars /\ last'.op = "note"

\* C34: a comment that fails, before the post or in it, is passed over and
\* nothing else: the loop goes to the next comment of the list, the map in
\* memory and the file stay as they are and the item loop stays at the item;
\* a comment that is posted is the one the loop is at; the comment loop is
\* left only when every comment was gone through or the process is killed,
\* and then the next source item is taken.
C34_CommentFailureSkipsOneComment ==
    /\ [][NoteStepTaken
            => /\ cidx <= Len(ado_comments_list)
               /\ cidx' = cidx + 1 /\ pc' = "note"
               /\ UNCHANGED <<ado_id_to_gitlab, disk, idx, details, ado_comments_list>>
               /\ notes_posted' = IF last'.result = "ok"
                                  THEN Append(notes_posted, ado_comments_list[cidx])
                                  ELSE notes_posted]_vars
    /\ [][(pc = "note" /\ pc' \notin {"note", "killed"})
            => /\ cidx > Len(ado_comments_list)
               /\ pc' = "item" /\ idx' = idx + 1
               /\ UNCHANGED <<ado_id_to_gitlab, disk, details>>]_vars

\* C34 witness: the first comment of item 2 failed and its second comment was
\* posted.
C34_Witness ==
    /\ pc = "note" /\ last.op = "note" /\ last.id = 2 /\ last.result = "ok"
    /\ ado_comments_list = <<21, 22>>
    /\ cidx = 3
    /\ notes_posted = <<22>>

\* the relation loop takes one relation
LinkStepTaken == pc = "p2_rel" /\ engine_vars' # engine_vars /\ last'.op = "relation"

MappedItemTaken ==
    pc = "item" /\ engine_vars' # engine_vars /\ last'.op = "fetch_existing"

\* the step after the fetch of a mapped item whose target item is not at hand
CommentsWithoutItem ==
    /\ pc = "comments" /\ gitlab_item_for_comments = NoItem
    /\ engine_vars' # engine_vars /\ last'.op # "kill"

\* C36: no create call is issued in a run for a source id of the map the run
\* loaded.  Taking a mapped item leaves the map, the file and the target's
\* items as they are, and when its fetch fails no target item is at hand;
\* without one the comment step posts nothing and goes to the next item.
\* Every loaded mapping stays in the map, unchanged, while the process runs,
\* so Phase 2 takes the item as mapped.
C36_MappedItemIsNeverRecreated ==
    /\ [](\A s \in loaded_ids : create_calls[s] = 0)
    /\ [][MappedItemTaken
            => /\ ado_work_item_id \in DOMAIN ado_id_to_gitlab
               /\ pc' = "comments"
               /\ UNCHANGED <<ado_id_to_gitlab, disk, gl_items, create_calls, idx>>
               /\ last'.result # "ok" => gitlab_item_for_comments' = NoItem]_vars
    /\ [][CommentsWithoutItem
            => /\ pc' = "item" /\ idx' = idx + 1
               /\ last'.calls = {}
               /\ UNCHANGED <<ado_id_to_gitlab, disk, notes_posted>>]_vars
    /\ [][(~Stopped /\ ~Stopped')
            => \A s \in loaded_ids :
                  s \in DOMAIN ado_id_to_gitlab' /\ ado_id_to_gitlab'[s] = ado_id_to_gitlab[s]]_vars
    /\ []((last.op = "link_item" /\ last.id \in loaded_ids) => last.result = "mapped")

\* C36 witness: in a second run with comment migration on, item 2 of the
\* loaded map, which has comments, was passed by the comment step with no
\* target item at hand (its fetch had failed), and no create call was made.
C36_Witness ==
    /\ run = 2 /\ migrate_comments /\ 2 \in loaded_ids
    /\ pc = "item" /\ idx = 3
    /\ create_calls[2] = 0
    /\ gitlab_item_for_comments = NoItem
    /\ last = Step("comments", 2, "ok", {})

(* ======================= the claims: the map in Phase 2 ======================= *)

\* C37: a step taken in Phase 2 does not write the mapping file, and while
\* Phase 2 goes on the identity map in memory stays as it is; a relation
\* step adds at most the link call its relation leads to under that map, and
\* it skips the relation exactly when the map yields no call for it.
C37_Phase2LeavesMapUnchanged ==
    /\ [][InPhase2 => /\ disk' = disk
                      /\ gl_items' = gl_items
                      /\ InPhase2' => ado_id_to_gitlab' = ado_id_to_gitlab]_vars
    /\ [][(pc = "p2_rel" /\ engine_vars' # engine_vars /\ last'.op = "relation")
            => LET call == LinkCallFor(batch2[j], Relations(batch2[j])[k], ado_id_to_gitlab)
               IN  /\ gl_links' \subseteq gl_links \cup ({call} \ {NoCall})
                   /\ (last'.result = "skipped") <=> (call = NoCall)]_vars

\* C37 witness: a link was added in Phase 2 while the file on disk differs
\* from the map in memory (a save of Phase 1 had failed).
C37_Witness ==
    /\ pc = "p2_rel"
    /\ last.op = "relation" /\ last.result = "linked"
    /\ ado_id_to_gitlab # EmptyMap
    /\ disk # JsonDump(ado_id_to_gitlab)
    /\ j > 1

(* ======================= the claims: the two directions of an edge ======================= *)

HierarchyForward == "System.LinkTypes.Hierarchy-Forward"
HierarchyReverse == "System.LinkTypes.Hierarchy-Reverse"

\* a carries a Hierarchy-Forward relation to b and b the Hierarchy-Reverse
\* relation to a
TwoWayEdges ==
    {e \in Ids \X Ids :
        /\ \E r \in 1..Len(Relations(e[1])) :
              /\ Relations(e[1])[r].rel = HierarchyForward
              /\ target_ado_id(Relations(e[1])[r]) = e[2]
        /\ \E r \in 1..Len(Relations(e[2])) :
              /\ Relations(e[2])[r].rel = HierarchyReverse
              /\ target_ado_id(Relations(e[2])[r]) = e[1]}

ForwardOf(e) == [rel |-> HierarchyForward, url |-> WorkItemUrl(e[2])]
ReverseOf(e) == [rel |-> HierarchyReverse, url |-> WorkItemUrl(e[1])]

\* C38: for mapped items a and b with a Hierarchy-Forward relation from a to
\* b and the Hierarchy-Reverse relation from b to a, both relations lead to
\* the same link call (the same helper with the same arguments), and so do the
\* two directions for every pair of mapped target types.  A relation step
\* for an edge whose link is in the target already adds nothing to the links
\* of the target, and when its call goes through it ends as a duplicate.
C38_TwoDirectionsOneEdge ==
    /\ [](\A e \in TwoWayEdges :
             (e[1] \in DOMAIN ado_id_to_gitlab /\ e[2] \in DOMAIN ado_id_to_gitlab)
                => LinkCallFor(e[1], ForwardOf(e), ado_id_to_gitlab)
                     = LinkCallFor(e[2], ReverseOf(e), ado_id_to_gitlab))
    /\ [](\A ta \in MappedTypes, tb \in MappedTypes :
             relation_calls(GitlabInfo(ta, 11), GitlabInfo(tb, 12), HierarchyForward, <<>>, "None")
               = relation_calls(GitlabInfo(tb, 12), GitlabInfo(ta, 11), HierarchyReverse, <<>>, "None"))
    /\ [][(/\ pc = "p2_rel" /\ engine_vars' # engine_vars /\ last'.op = "relation"
           /\ Relations(batch2[j])[k].rel \in {HierarchyForward, HierarchyReverse}
           /\ LinkCallFor(batch2[j], Relations(batch2[j])[k], ado_id_to_gitlab) # NoCall
           /\ LinkExists(LinkCallFor(batch2[j], Relations(batch2[j])[k], ado_id_to_gitlab),
                         gl_links))
            => /\ gl_links' = gl_links
               /\ last'.result \in {"duplicate", "fetch_fail", "link_fail"}]_vars

\* C38 witness: in the first run item 1 was linked through its
\* Hierarchy-Reverse relation, and the Hierarchy-Forward relation of item 2
\* then ended as a duplicate; the edge is in the target once.
C38_Witness ==
    /\ run = 1 /\ <<2, 1>> \in TwoWayEdges
    /\ batch2 = <<1, 2>>
    /\ RelationStepTaken /\ last.id = 2
    /\ LastRelation.rel = HierarchyForward
    /\ last.result = "duplicate"
    /\ Cardinality({c \in gl_links : c.kind = "epic_issue"}) = 1

(* ======================= the claims: the rows of migration_state ======================= *)

\* C39: in every state of the DatabaseHandler a migration has an end_time
\* exactly when its status is 'completed' or 'failed'; a migration that is
\* 'in_progress' has no end_time.
C39_EndTimeIffFinished ==
    \A i \in 1..Len(migration_rows) :
        (migration_rows[i].end_time # "None")
           <=> (migration_rows[i].status \in {"completed", "failed"})

====
